---- MODULE Spec2Model ----
(***************************************************************************)
(* Entity resolution of backend/sql_agent/entity_resolver.py: the          *)
(* EntityResolver caches, the matching ladder, the fuzzy fallback, the     *)
(* suggestion lists and resolve_filters, over the collections served by    *)
(* EverflowClient (backend/sql_agent/everflow_client.py).                  *)
(*                                                                         *)
(* A Python str is a sequence of one-character strings; an int is a        *)
(* natural number.  A value handed to a resolve operation is a record      *)
(* [t |-> "str", s |-> chars, n |-> 0] or [t |-> "int", s |-> <<>>, n |-> k]. *)
(***************************************************************************)
EXTENDS Integers, Sequences, FiniteSets, TLC

(***************************************************************************)
(* Python str primitives used by the resolver.                             *)
(***************************************************************************)
UpperCase == <<"A","B","C","D","E","F","G","H","I","J","K","L","M",
               "N","O","P","Q","R","S","T","U","V","W","X","Y","Z">>
LowerCase == <<"a","b","c","d","e","f","g","h","i","j","k","l","m",
               "n","o","p","q","r","s","t","u","v","w","x","y","z">>
Whitespace == {" ", "\t"}

SetMin(S) == CHOOSE x \in S : \A y \in S : x <= y
SetMax(S) == CHOOSE x \in S : \A y \in S : x >= y

\* str.lower() on one character
LowerCh(c) ==
  IF \E i \in 1..26 : UpperCase[i] = c
    THEN LowerCase[CHOOSE i \in 1..26 : UpperCase[i] = c]
    ELSE c

\* str.upper() on one character
UpperCh(c) ==
  IF \E i \in 1..26 : LowerCase[i] = c
    THEN UpperCase[CHOOSE i \in 1..26 : LowerCase[i] = c]
    ELSE c

Lower(s) == [i \in 1..Len(s) |-> LowerCh(s[i])]
Upper(s) == [i \in 1..Len(s) |-> UpperCh(s[i])]

\* str.isupper(): at least one cased character and no lower-case one
IsUpper(s) ==
  /\ \E i \in 1..Len(s) : \E k \in 1..26 : UpperCase[k] = s[i]
  /\ \A i \in 1..Len(s) : \A k \in 1..26 : LowerCase[k] # s[i]

\* str.strip()
Strip(s) ==
  LET keep == {i \in 1..Len(s) : s[i] \notin Whitespace}
  IN  IF keep = {} THEN <<>> ELSE SubSeq(s, SetMin(keep), SetMax(keep))

\* str.split() with no argument: the maximal runs of non-whitespace
RECURSIVE Split(_)
Split(s) ==
  IF s = <<>> THEN <<>>
  ELSE IF Head(s) \in Whitespace THEN Split(Tail(s))
  ELSE LET ws == {i \in 1..Len(s) : s[i] \in Whitespace}
           n  == IF ws = {} THEN Len(s) + 1 ELSE SetMin(ws)
       IN  <<SubSeq(s, 1, n - 1)>> \o Split(SubSeq(s, n, Len(s)))

\* ' '.join(words)
RECURSIVE JoinSp(_)
JoinSp(ws) ==
  IF ws = <<>> THEN <<>>
  ELSE IF Len(ws) = 1 THEN ws[1]
  ELSE ws[1] \o <<" ">> \o JoinSp(Tail(ws))

\* the Python test  x in y  on two strings
Contains(x, y) ==
  \E i \in 0..(Len(y) - Len(x)) : SubSeq(y, i + 1, i + Len(x)) = x

\* str(n) for an int n >= 0
Digits == <<"0","1","2","3","4","5","6","7","8","9">>
RECURSIVE IntStr(_)
IntStr(n) ==
  IF n < 10 THEN <<Digits[n + 1]>>
  ELSE IntStr(n \div 10) \o <<Digits[(n % 10) + 1]>>

(***************************************************************************)
(* difflib.SequenceMatcher(None, a, b).ratio() as the exact fraction       *)
(* num/den = 2*M/T.  Both strings are far below the 200 elements at which  *)
(* the autojunk heuristic starts, and isjunk is None.                      *)
(***************************************************************************)
\* the length of the common run of a[i:ahi] and b[j:bhi] (0-based)
RECURSIVE run_length(_, _, _, _, _, _)
run_length(a, b, i, ahi, j, bhi) ==
  IF i < ahi /\ j < bhi /\ a[i + 1] = b[j + 1]
    THEN 1 + run_length(a, b, i + 1, ahi, j + 1, bhi)
    ELSE 0

\* find_longest_match on a[alo:ahi], b[blo:bhi] (0-based, half-open): the
\* longest common block, earliest in a, then earliest in b
longest_of(alo, blo, size) ==
  LET k == SetMax({size[st] : st \in DOMAIN size})
      i == SetMin({st[1] : st \in {x \in DOMAIN size : size[x] = k}})
      j == SetMin({st[2] : st \in {x \in DOMAIN size : size[x] = k /\ x[1] = i}})
  IN  IF DOMAIN size = {} THEN <<alo, blo, 0>> ELSE <<i, j, k>>

find_longest_match(a, b, alo, ahi, blo, bhi) ==
  longest_of(alo, blo,
             [st \in {x \in (alo..(ahi - 1)) \X (blo..(bhi - 1)) : a[x[1] + 1] = b[x[2] + 1]}
                |-> run_length(a, b, st[1], ahi, st[2], bhi)])

\* get_matching_blocks: the total size of the matching blocks
RECURSIVE matching_size(_, _, _, _, _, _)
\* the block <<i, j, k>> found in a[alo:ahi], b[blo:bhi], and the blocks to its
\* left and to its right
around(a, b, alo, ahi, blo, bhi, i, j, k) ==
  IF k = 0 THEN 0
  ELSE k
       + (IF alo < i /\ blo < j THEN matching_size(a, b, alo, i, blo, j) ELSE 0)
       + (IF i + k < ahi /\ j + k < bhi
            THEN matching_size(a, b, i + k, ahi, j + k, bhi) ELSE 0)

block_and_around(a, b, alo, ahi, blo, bhi, m) ==
  around(a, b, alo, ahi, blo, bhi, m[1], m[2], m[3])

matching_size(a, b, alo, ahi, blo, bhi) ==
  block_and_around(a, b, alo, ahi, blo, bhi, find_longest_match(a, b, alo, ahi, blo, bhi))

\* a similarity is the fraction num/den, den > 0
Zero == [num |-> 0, den |-> 1]
SimGE(x, y) == x.num * y.den >= y.num * x.den
SimGT(x, y) == x.num * y.den > y.num * x.den
Frac(n, d) == [num |-> n, den |-> d]

\* _calculate_ratio: 2.0 * matches / length, and 1.0 when length is 0
ratio(a, b) ==
  IF Len(a) + Len(b) = 0 THEN Frac(1, 1)
  ELSE Frac(2 * matching_size(a, b, 0, Len(a), 0, Len(b)), Len(a) + Len(b))

\* EntityResolver._calculate_similarity
_calculate_similarity(str1, str2) == ratio(Lower(str1), Lower(str2))

\* round(sim * 100, 1), in tenths of a percent (round half to even)
Percent(sim) ==
  LET q == (sim.num * 1000) \div sim.den
      r == (sim.num * 1000) % sim.den
  IN  IF 2 * r > sim.den THEN q + 1
      ELSE IF 2 * r < sim.den THEN q
      ELSE IF q % 2 = 0 THEN q ELSE q + 1

(***************************************************************************)
(* The built-in tables of test_data_reference.py.                          *)
(***************************************************************************)
AFFILIATES ==
  << [id |-> 12345, name |-> <<"P","r","e","m","i","u","m"," ","T","r","a","f","f","i","c"," ","P","a","r","t","n","e","r","s">>],
     [id |-> 23456, name |-> <<"G","l","o","b","a","l"," ","M","e","d","i","a"," ","N","e","t","w","o","r","k">>],
     [id |-> 34567, name |-> <<"D","i","g","i","t","a","l"," ","M","a","r","k","e","t","i","n","g"," ","P","r","o">>],
     [id |-> 45678, name |-> <<"A","f","f","i","l","i","a","t","e"," ","M","a","s","t","e","r","s">>],
     [id |-> 56789, name |-> <<"T","r","a","f","f","i","c"," ","B","o","o","s","t","e","r","s"," ","I","n","c">>] >>

OFFERS ==
  << [id |-> 1001, name |-> <<"S","u","m","m","e","r"," ","P","r","o","m","o"," ","2","0","2","4">>],
     [id |-> 1002, name |-> <<"H","o","l","i","d","a","y"," ","S","p","e","c","i","a","l">>],
     [id |-> 1003, name |-> <<"E","v","e","r","g","r","e","e","n"," ","O","f","f","e","r"," ","A">>],
     [id |-> 1004, name |-> <<"W","i","n","t","e","r"," ","C","a","m","p","a","i","g","n">>],
     [id |-> 1005, name |-> <<"N","e","w"," ","Y","e","a","r"," ","D","e","a","l">>] >>

COUNTRIES ==
  << [code |-> <<"U","S">>, name |-> <<"U","n","i","t","e","d"," ","S","t","a","t","e","s">>],
     [code |-> <<"D","E">>, name |-> <<"G","e","r","m","a","n","y">>],
     [code |-> <<"G","B">>, name |-> <<"U","n","i","t","e","d"," ","K","i","n","g","d","o","m">>],
     [code |-> <<"F","R">>, name |-> <<"F","r","a","n","c","e">>],
     [code |-> <<"C","A">>, name |-> <<"C","a","n","a","d","a">>],
     [code |-> <<"A","U">>, name |-> <<"A","u","s","t","r","a","l","i","a">>],
     [code |-> <<"N","L">>, name |-> <<"N","e","t","h","e","r","l","a","n","d","s">>],
     [code |-> <<"E","S">>, name |-> <<"S","p","a","i","n">>],
     [code |-> <<"I","T">>, name |-> <<"I","t","a","l","y">>],
     [code |-> <<"P","L">>, name |-> <<"P","o","l","a","n","d">>] >>

(***************************************************************************)
(* Values: what a caller hands to a resolve operation and what comes back. *)
(***************************************************************************)
StrV(s) == [t |-> "str",  s |-> s,    n |-> 0]
IntV(k) == [t |-> "int",  s |-> <<>>, n |-> k]
None    == [t |-> "none", s |-> <<>>, n |-> 0]

\* Python truthiness of a value (None, 0 and "" are falsy)
Truthy(v) == (v.t = "int" /\ v.n # 0) \/ (v.t = "str" /\ v.s # <<>>)

\* what a call returns: a bare value, a pair (value, suggestions), or an
\* exception that leaves the call
Bare(v)    == [shape |-> "bare",  id |-> v,    sugg |-> <<>>, exc |-> "none"]
Pair(v, l) == [shape |-> "pair",  id |-> v,    sugg |-> l,    exc |-> "none"]
Raise(e)   == [shape |-> "raise", id |-> None, sugg |-> <<>>, exc |-> e]

\* return x  /  return x, suggestions  under the return_suggestions flag
Return(return_suggestions, v, l) == IF return_suggestions THEN Pair(v, l) ELSE Bare(v)

\* d[key] = v on a dict
Put(d, key, v) ==
  [k \in (DOMAIN d) \cup {key} |-> IF k = key THEN v ELSE d[k]]

\* Variant of normalize that forgets strip(); C2 must not survive it.
lower_only(text) == Lower(text)

\* search_name = str(value).strip().lower(): the cache key of a term
normalize(text) == Lower(Strip(text))

\* Variant of cached that never finds an entry; C3 must not survive it.
never_cached(cache, search_name) == FALSE

\* "if search_name in self._x_cache": the cache lookup that opens a resolve
cached(cache, search_name) == search_name \in DOMAIN cache

\* self._x_cache[search_name] = x_id
cache_put(cache, search_name, id) == Put(cache, search_name, id)

\* the outcome of one resolve call: what it returns, the cache it leaves and
\* the number of collection fetches (get_* calls) it made
Outcome(ret, cache, fetched) == [ret |-> ret, cache |-> cache, fetched |-> fetched]

\* self._x_cache[search_name] = x_id, then return x_id (with no suggestions)
Resolved(return_suggestions, cache, search_name, id, fetched) ==
  Outcome(Return(return_suggestions, id, <<>>), cache_put(cache, search_name, id), fetched)

\* if search_name in self._x_cache: return self._x_cache[search_name]
FromCache(return_suggestions, cache, search_name) ==
  Outcome(Return(return_suggestions, cache[search_name], <<>>), cache, 0)

(***************************************************************************)
(* test_data_reference.py lookups: first row whose name (code) equals the  *)
(* argument case-insensitively; 0 when there is none.  The argument is not *)
(* stripped.                                                               *)
(***************************************************************************)
FirstRow(table, Test(_)) ==
  LET hits == {i \in 1..Len(table) : Test(table[i])}
  IN  IF hits = {} THEN 0 ELSE SetMin(hits)

get_affiliate_by_name(name) ==
  LET Same(a) == Lower(a.name) = Lower(name) IN FirstRow(AFFILIATES, Same)

get_offer_by_name(name) ==
  LET Same(o) == Lower(o.name) = Lower(name) IN FirstRow(OFFERS, Same)

get_country_by_name(name) ==
  LET Same(c) == Lower(c.name) = Lower(name) IN FirstRow(COUNTRIES, Same)

get_country_by_code(code) ==
  LET Same(c) == Upper(c.code) = Upper(code) IN FirstRow(COUNTRIES, Same)

(***************************************************************************)
(* EverflowClient.get_affiliates / get_offers.  The upstream holds a list  *)
(* of raw records [id, hasName, name] (id 0: no network_*_id; hasName      *)
(* FALSE: no "name" key) and serves it in pages; a request for page        *)
(* failAt raises (failAt = 0: no request fails).                           *)
(***************************************************************************)
page_size == 50

\* Variant of MaxPages with a lower ceiling; C14 must not survive it.
FewerPages == page_size - 10

\* "if page > 50: break": the safety ceiling of the page loop
MaxPages == 50

\* an upstream: the records it holds, the number of them it puts on a page
\* and the paging.total_count it reports (0: it reports none)
Serving(recs, size, total) == [recs |-> recs, size |-> size, total |-> total]

\* the upstream the client is written for: pages of page_size records and the
\* number of its records as total_count
Nominal(recs) == Serving(recs, page_size, Len(recs))

\* the response to GET ...?page=p : the page's records and paging.total_count
Respond(up, p) ==
  LET lo == (p - 1) * up.size + 1
      hi == IF p * up.size < Len(up.recs) THEN p * up.size ELSE Len(up.recs)
  IN  [data |-> SubSeq(up.recs, lo, hi), total_count |-> up.total]

PartnerPrefix == <<"P","a","r","t","n","e","r"," ">>
OfferPrefix   == <<"O","f","f","e","r"," ">>

format_affiliate(aff) ==
  [affiliate_id   |-> aff.id,
   affiliate_name |-> IF aff.hasName THEN aff.name ELSE PartnerPrefix \o IntStr(aff.id)]

format_offer(offer) ==
  [offer_id   |-> offer.id,
   offer_name |-> IF offer.hasName THEN offer.name ELSE OfferPrefix \o IntStr(offer.id),
   raw_name   |-> IF offer.hasName THEN offer.name ELSE <<>>]

\* for rec in data: append the formatted record when it has an id; stop at
\* the limit (limit 0 stands for None: "if limit" is false for both)
\* the record appended to the result list, per endpoint
Format(endpoint, rec) ==
  IF endpoint = "affiliates" THEN format_affiliate(rec) ELSE format_offer(rec)

\* l[:n]
Cut(l, n) == SubSeq(l, 1, IF n < Len(l) THEN n ELSE Len(l))

\* "if aff_id:" / "if offer_id:"
WithId(rec) == rec.id # 0

\* Variant of extract that appends only the first record of a page; C13 must
\* not survive it.
extract_first(data, all, limit, endpoint) ==
  IF data = <<>> THEN all ELSE Append(all, Format(endpoint, Head(data)))

\* the for-loop over the records of a page: a record with an id is appended,
\* and behind an append the loop breaks "if limit and len(all) >= limit".  So
\* of the records with an id the loop appends all without a limit, and with
\* one as many as it takes to reach it (one at least, the test follows the
\* append).
extract(data, all, limit, endpoint) ==
  LET kept == SelectSeq(data, WithId)
      room == IF limit = 0 THEN Len(kept)
              ELSE IF limit - Len(all) < 1 THEN 1
              ELSE limit - Len(all)
      taken == Cut(kept, room)
  IN  all \o [k \in 1..Len(taken) |-> Format(endpoint, taken[k])]

\* the while-loop over pages.  run is the loop so far: the list all_affiliates
\* (all_offers) and the pages requested, in the order of the requests; the
\* request for page failAt raises.  A page without records ends the loop
\* before anything is appended; the other break tests follow the append.
RECURSIVE fetch_pages(_, _, _, _, _, _)
fetch_pages(up, failAt, limit, page, run, endpoint) ==
  LET response    == Respond(up, page)
      data        == response.data
      total_count == response.total_count
      run2        == [list      |-> extract(data, run.list, limit, endpoint),
                      requested |-> Append(run.requested, page)]
      break       == \/ data = <<>>
                     \/ limit # 0 /\ Len(run2.list) >= limit
                     \/ total_count > 0 /\ Len(run2.list) >= total_count
                     \/ Len(data) < page_size
                     \/ total_count > 0 /\ total_count - Len(run2.list) <= 0
                     \/ page + 1 > MaxPages
  IN  IF page = failAt
        THEN [ok |-> FALSE, list |-> run.list, requested |-> Append(run.requested, page)]
      ELSE IF break
        THEN [ok |-> TRUE, list |-> run2.list, requested |-> run2.requested]
      ELSE fetch_pages(up, failAt, limit, page + 1, run2, endpoint)

\* all_affiliates = [], page = 1
NoRun == [list |-> <<>>, requested |-> <<>>]

Truncate(l, limit) == IF limit # 0 THEN Cut(l, limit) ELSE l

\* return all[:limit] if limit else all;  except Exception: return []
Fetched(r, limit) == IF r.ok THEN Truncate(r.list, limit) ELSE <<>>

get_affiliates(up, failAt, limit) ==
  Fetched(fetch_pages(up, failAt, limit, 1, NoRun, "affiliates"), limit)

get_offers(up, failAt, limit) ==
  Fetched(fetch_pages(up, failAt, limit, 1, NoRun, "offers"), limit)

(***************************************************************************)
(* EntityResolver._find_similar_entities: per entity the first name field  *)
(* whose similarity reaches min_similarity, sorted by similarity (highest  *)
(* first, list.sort is stable) and cut to max_results.                     *)
(***************************************************************************)
\* insert m behind every element that is at least as similar
RECURSIVE InsertDesc(_, _)
InsertDesc(sorted, m) ==
  IF sorted = <<>> THEN <<m>>
  ELSE IF SimGE(Head(sorted).similarity, m.similarity)
    THEN <<Head(sorted)>> \o InsertDesc(Tail(sorted), m)
  ELSE <<m>> \o sorted

\* Variant of SortDesc that keeps the order of the collection; C5 must not
\* survive it.
unsorted(l) == l

\* matches.sort(key=similarity, reverse=True); the key is a fraction here and
\* a number of tenths of a percent in resolve_country
RECURSIVE SortDesc(_)
SortDesc(l) ==
  IF l = <<>> THEN <<>>
  ELSE InsertDesc(SortDesc(SubSeq(l, 1, Len(l) - 1)), l[Len(l)])

\* "if not name: continue": the names a loop over possible_names looks at
NonEmpty(name) == name # <<>>
Named(names) == SelectSeq(names, NonEmpty)

\* fields[i] lists the values of the name_fields of entities[i], <<>> for
\* a field the entity does not have
RECURSIVE similar_matches(_, _, _, _, _, _)
\* "if similarity >= min_similarity: matches.append(...); break", else the
\* next field
similar_match(search_lower, entities, fields, min_similarity, i, j, similarity) ==
  IF SimGE(similarity, min_similarity)
    THEN <<[entity |-> entities[i], similarity |-> similarity]>>
         \o similar_matches(search_lower, entities, fields, min_similarity, i + 1, 1)
  ELSE similar_matches(search_lower, entities, fields, min_similarity, i, j + 1)

similar_matches(search_lower, entities, fields, min_similarity, i, j) ==
  IF i > Len(entities) THEN <<>>
  ELSE IF j > Len(Named(fields[i]))
    THEN similar_matches(search_lower, entities, fields, min_similarity, i + 1, 1)
  ELSE similar_match(search_lower, entities, fields, min_similarity, i, j,
                     _calculate_similarity(search_lower, Lower(Strip(Named(fields[i])[j]))))

_find_similar_entities(search_term, entities, fields, min_similarity, max_results) ==
  Cut(SortDesc(similar_matches(Lower(Strip(search_term)), entities, fields,
                               min_similarity, 1, 1)),
      max_results)

\* Variant of AutoAccept with a higher threshold; C6 must not survive it.
StricterAccept == Frac(95, 100)

\* "best_similarity >= 0.85": a fuzzy match this good is accepted
AutoAccept == Frac(85, 100)

\* min_similarity=0.5 and max_results=5 of the suggestion calls
MinSimilarity == Frac(5, 10)
MaxResults == 5

(***************************************************************************)
(* EntityResolver.resolve_affiliate                                        *)
(***************************************************************************)
\* possible_names: affiliate_name, affiliate, _raw.affiliate_name,
\* _raw.affiliate; the API record carries only "name", so the last three are ""
affiliate_names(aff) == <<aff.affiliate_name, <<>>, <<>>, <<>>>>

\* the nested for-loops over affiliates[i] and its possible_names[j]; a hit
\* returns from the function, otherwise best_similarity / best_match (an index
\* into affiliates, 0 for None) are carried on
RECURSIVE affiliate_loop(_, _, _, _, _, _)
affiliate_loop(affiliates, search_name, i, j, best_similarity, best_match) ==
  IF i > Len(affiliates)
    THEN [hit |-> "none", at |-> 0,
          best_similarity |-> best_similarity, best_match |-> best_match]
  ELSE IF affiliates[i].affiliate_id = 0 \/ j > Len(Named(affiliate_names(affiliates[i])))
    THEN affiliate_loop(affiliates, search_name, i + 1, 1, best_similarity, best_match)
  ELSE
    LET name       == Named(affiliate_names(affiliates[i]))[j]
        name_lower == Lower(Strip(name))
        similarity == _calculate_similarity(search_name, name_lower)
        found(rung) == [hit |-> rung, at |-> i,
                        best_similarity |-> best_similarity, best_match |-> best_match]
    IN  IF name_lower = search_name THEN found("exact")
        ELSE IF Contains(search_name, name_lower) \/ Contains(name_lower, search_name)
          THEN found("partial")
        ELSE IF SimGT(similarity, best_similarity)
          THEN affiliate_loop(affiliates, search_name, i, j + 1, similarity, i)
        ELSE affiliate_loop(affiliates, search_name, i, j + 1, best_similarity, best_match)

\* the suggestion entries {id, name, similarity} of the matches
affiliate_items(suggestions) ==
  [k \in 1..Len(suggestions) |->
     [id         |-> IntV(suggestions[k].entity.affiliate_id),
      name       |-> suggestions[k].entity.affiliate_name,
      similarity |-> Percent(suggestions[k].similarity)]]

affiliate_suggestions(search_name, affiliates) ==
  affiliate_items(
    _find_similar_entities(search_name, affiliates,
                           [i \in 1..Len(affiliates) |-> <<affiliates[i].affiliate_name, <<>>>>],
                           MinSimilarity, MaxResults))

\* resolve_affiliate behind its loops: scan is what they left
affiliate_after_loop(search_name, return_suggestions, cache, affiliates, scan) ==
  IF scan.hit # "none"
    THEN Resolved(return_suggestions, cache, search_name,
                  IntV(affiliates[scan.at].affiliate_id), 1)
  ELSE IF scan.best_match # 0 /\ SimGE(scan.best_similarity, AutoAccept)
    THEN Resolved(return_suggestions, cache, search_name,
                  IntV(affiliates[scan.best_match].affiliate_id), 1)
  ELSE Outcome(Return(return_suggestions, None,
                      affiliate_suggestions(search_name, affiliates)), cache, 1)

\* resolve_affiliate from "affiliates = self.client.get_affiliates()" on
affiliate_from_api(search_name, return_suggestions, cache, affiliates) ==
  affiliate_after_loop(search_name, return_suggestions, cache, affiliates,
                       affiliate_loop(affiliates, search_name, 1, 1, Zero, 0))

\* resolve_affiliate behind search_name: the cache, the test data (test_aff
\* is a row of AFFILIATES, 0 for None), the API
affiliate_by_name(search_name, return_suggestions, cache, recs, failAt, test_aff) ==
  IF cached(cache, search_name) THEN FromCache(return_suggestions, cache, search_name)
  ELSE IF test_aff # 0
    THEN Resolved(return_suggestions, cache, search_name, IntV(AFFILIATES[test_aff].id), 0)
  ELSE affiliate_from_api(search_name, return_suggestions, cache,
                          get_affiliates(Nominal(recs), failAt, 0))

\* the body of resolve_affiliate for a value that is not an int
resolve_affiliate_name(value, return_suggestions, cache, recs, failAt) ==
  affiliate_by_name(normalize(value.s), return_suggestions, cache, recs, failAt,
                    get_affiliate_by_name(value.s))

\* Variant of resolve_affiliate that also caches an id passed through; C1 must
\* not survive it.
resolve_affiliate_caching(value, return_suggestions, cache, recs, failAt) ==
  IF value.t = "int"
    THEN Outcome(Return(return_suggestions, value, <<>>),
                 cache_put(cache, normalize(IntStr(value.n)), value), 0)
  ELSE resolve_affiliate_name(value, return_suggestions, cache, recs, failAt)

resolve_affiliate(value, return_suggestions, cache, recs, failAt) ==
  IF value.t = "int" THEN Outcome(Return(return_suggestions, value, <<>>), cache, 0)
  ELSE resolve_affiliate_name(value, return_suggestions, cache, recs, failAt)

(***************************************************************************)
(* EntityResolver.resolve_offer                                            *)
(***************************************************************************)
Bracket(c) == IF c = "[" THEN "(" ELSE IF c = "]" THEN ")" ELSE c

\* Variant of normalize_for_matching that leaves the brackets alone; C4 must not
\* survive it.
collapse_only(text) == JoinSp(Split(text))

\* text.replace('[', '(').replace(']', ')'), then ' '.join(text.split())
normalize_for_matching(text) ==
  JoinSp(Split([i \in 1..Len(text) |-> Bracket(text[i])]))

LongWord(w) == Len(w) > 2

\* possible_names: offer_name, advertiser_name, advertiser, offer, _raw.name,
\* _raw.offer_name, _raw.advertiser_name, _raw.advertiser, _raw.offer
offer_names(offer) ==
  <<offer.offer_name, <<>>, <<>>, <<>>, offer.raw_name, <<>>, <<>>, <<>>, <<>>>>

RECURSIVE offer_loop(_, _, _, _, _, _)
offer_loop(offers, search_name, i, j, best_similarity, best_match) ==
  IF i > Len(offers)
    THEN [hit |-> "none", at |-> 0,
          best_similarity |-> best_similarity, best_match |-> best_match]
  ELSE IF offers[i].offer_id = 0 \/ j > Len(Named(offer_names(offers[i])))
    THEN offer_loop(offers, search_name, i + 1, 1, best_similarity, best_match)
  ELSE
    LET name              == Named(offer_names(offers[i]))[j]
        name_lower        == Lower(Strip(name))
        search_normalized == normalize_for_matching(search_name)
        name_normalized   == normalize_for_matching(name_lower)
        search_words      == SelectSeq(Split(search_normalized), LongWord)
        name_words        == SelectSeq(Split(name_normalized), LongWord)
        similarity        == _calculate_similarity(search_normalized, name_normalized)
        found(rung) == [hit |-> rung, at |-> i,
                        best_similarity |-> best_similarity, best_match |-> best_match]
    IN  IF name_lower = search_name THEN found("exact")
        ELSE IF search_normalized = name_normalized THEN found("normalized")
        ELSE IF Contains(search_normalized, name_normalized) THEN found("search_in_name")
        ELSE IF Contains(name_normalized, search_normalized) THEN found("name_in_search")
        ELSE IF /\ search_words # <<>>
                /\ \A w \in 1..Len(search_words) : Contains(search_words[w], name_normalized)
          THEN found("words")
        ELSE IF /\ search_words # <<>>
                /\ name_words # <<>>
                /\ search_words[1] = name_words[1]
          THEN found("first_word")
        ELSE IF SimGT(similarity, best_similarity)
          THEN offer_loop(offers, search_name, i, j + 1, similarity, i)
        ELSE offer_loop(offers, search_name, i, j + 1, best_similarity, best_match)

offer_items(suggestions) ==
  [k \in 1..Len(suggestions) |->
     [id         |-> IntV(suggestions[k].entity.offer_id),
      name       |-> suggestions[k].entity.offer_name,
      similarity |-> Percent(suggestions[k].similarity)]]

offer_suggestions(search_name, offers) ==
  offer_items(
    _find_similar_entities(search_name, offers,
                           [i \in 1..Len(offers) |-> <<offers[i].offer_name, <<>>, <<>>, <<>>>>],
                           MinSimilarity, MaxResults))

\* resolve_offer behind the suggestions: a 100% suggestion is taken, else
\* None goes back with the suggestions
offer_after_suggestions(search_name, return_suggestions, cache, suggestions_list) ==
  LET perfect == {k \in 1..Len(suggestions_list) : suggestions_list[k].similarity >= 1000}
  IN  IF perfect # {}
        THEN Resolved(return_suggestions, cache, search_name,
                      suggestions_list[SetMin(perfect)].id, 1)
      ELSE Outcome(Return(return_suggestions, None, suggestions_list), cache, 1)

\* resolve_offer behind its loops: scan is what they left
offer_after_loop(search_name, return_suggestions, cache, offers, scan) ==
  IF scan.hit # "none"
    THEN Resolved(return_suggestions, cache, search_name, IntV(offers[scan.at].offer_id), 1)
  ELSE IF scan.best_match # 0 /\ SimGE(scan.best_similarity, AutoAccept)
    THEN Resolved(return_suggestions, cache, search_name,
                  IntV(offers[scan.best_match].offer_id), 1)
  ELSE offer_after_suggestions(search_name, return_suggestions, cache,
                               offer_suggestions(search_name, offers))

\* resolve_offer from "offers = self.client.get_offers()" on
offer_from_api(search_name, return_suggestions, cache, offers) ==
  offer_after_loop(search_name, return_suggestions, cache, offers,
                   offer_loop(offers, search_name, 1, 1, Zero, 0))

\* resolve_offer behind search_name: the cache, the test data (test_offer is
\* a row of OFFERS, 0 for None), the API
offer_by_name(search_name, return_suggestions, cache, recs, failAt, test_offer) ==
  IF cached(cache, search_name) THEN FromCache(return_suggestions, cache, search_name)
  ELSE IF test_offer # 0
    THEN Resolved(return_suggestions, cache, search_name, IntV(OFFERS[test_offer].id), 0)
  ELSE offer_from_api(search_name, return_suggestions, cache, get_offers(Nominal(recs), failAt, 0))

resolve_offer(value, return_suggestions, cache, recs, failAt) ==
  IF value.t = "int" THEN Outcome(Bare(value), cache, 0)
  ELSE offer_by_name(normalize(value.s), return_suggestions, cache, recs, failAt,
                     get_offer_by_name(value.s))

(***************************************************************************)
(* EverflowClient.get_countries: the rows of the entity report, one per    *)
(* [country_code, country_name, country] (<<>>: the key is missing or      *)
(* null), deduplicated by code.                                            *)
(***************************************************************************)
report_page_size == 100

\* x or y  on two strings
Or(x, y) == IF x # <<>> THEN x ELSE y

\* the response to POST /v1/networks/reporting/entity for page p
RespondReport(rows, p) ==
  LET lo == (p - 1) * report_page_size + 1
      hi == IF p * report_page_size < Len(rows) THEN p * report_page_size ELSE Len(rows)
  IN  [table        |-> SubSeq(rows, lo, hi),
       total_count  |-> Len(rows),
       total_pages  |-> (Len(rows) + report_page_size - 1) \div report_page_size,
       current_page |-> p]

format_country(row) ==
  [code         |-> row.country_code,
   name         |-> Or(row.country_name, Or(row.country, row.country_code)),
   country      |-> row.country,
   country_name |-> row.country_name]

RECURSIVE extract_countries(_, _, _)
\* new: the row has a code not seen before, so it is appended
extract_country_rest(table, limit, new, all2) ==
  IF new /\ limit # 0 /\ Len(all2) >= limit THEN all2
  ELSE extract_countries(Tail(table), all2, limit)

extract_country(table, all, limit, new) ==
  extract_country_rest(table, limit, new,
                       IF new THEN Append(all, format_country(Head(table))) ELSE all)

extract_countries(table, all, limit) ==
  IF table = <<>> THEN all
  ELSE extract_country(table, all, limit,
                       /\ Head(table).country_code # <<>>
                       /\ \A k \in 1..Len(all) : all[k].code # Head(table).country_code)

RECURSIVE fetch_country_pages(_, _, _, _, _)
\* the break tests behind a page whose rows were appended (all2)
next_country_page(rows, failAt, limit, page, all, response, all2) ==
  LET done(l) == [ok |-> TRUE, list |-> l, requests |-> page]
  IN  IF response.table = <<>> THEN done(all)
      ELSE IF limit # 0 /\ Len(all2) >= limit THEN done(all2)
      ELSE IF response.total_count > 0 /\ Len(all2) >= response.total_count THEN done(all2)
      ELSE IF response.current_page >= response.total_pages
              \/ Len(response.table) < report_page_size THEN done(all2)
      ELSE fetch_country_pages(rows, failAt, limit, page + 1, all2)

\* one turn of the loop on the response to its request
after_country_page(rows, failAt, limit, page, all, response) ==
  next_country_page(rows, failAt, limit, page, all, response,
                    extract_countries(response.table, all, limit))

fetch_country_pages(rows, failAt, limit, page, all) ==
  IF page = failAt THEN [ok |-> FALSE, list |-> all, requests |-> page]
  ELSE
    after_country_page(rows, failAt, limit, page, all, RespondReport(rows, page))

get_countries(rows, failAt, limit) ==
  Fetched(fetch_country_pages(rows, failAt, limit, 1, <<>>), limit)

(***************************************************************************)
(* EntityResolver.resolve_country                                          *)
(***************************************************************************)
\* possible_names: name, country_name, country, _raw.country_name, _raw.country
country_names(c) == <<c.name, c.country_name, c.country, c.country_name, c.country>>

\* the "name" of a countries_list item
country_item_name(c) == Or(c.country_name, Or(c.name, c.country))

\* text is str(value); step j = 0 of a country is the test of its code, steps
\* j >= 1 are its names
RECURSIVE country_loop(_, _, _, _, _, _)
country_loop(countries, text, i, j, best_similarity, best_match) ==
  IF i > Len(countries)
    THEN [hit |-> "none", at |-> 0,
          best_similarity |-> best_similarity, best_match |-> best_match]
  ELSE IF countries[i].code = <<>> \/ j > Len(Named(country_names(countries[i])))
    THEN country_loop(countries, text, i + 1, 0, best_similarity, best_match)
  ELSE IF j = 0
    THEN IF Upper(text) = Upper(countries[i].code)
           THEN [hit |-> "code", at |-> i,
                 best_similarity |-> best_similarity, best_match |-> best_match]
           ELSE country_loop(countries, text, i, 1, best_similarity, best_match)
  ELSE
    LET name         == Named(country_names(countries[i]))[j]
        name_lower   == Lower(Strip(name))
        search_lower == Lower(Strip(text))
        similarity   == _calculate_similarity(search_lower, name_lower)
        found(rung) == [hit |-> rung, at |-> i,
                        best_similarity |-> best_similarity, best_match |-> best_match]
    IN  IF name_lower = search_lower THEN found("exact")
        ELSE IF Contains(search_lower, name_lower) \/ Contains(name_lower, search_lower)
          THEN found("partial")
        ELSE IF SimGT(similarity, best_similarity)
          THEN country_loop(countries, text, i, j + 1, similarity, i)
        ELSE country_loop(countries, text, i, j + 1, best_similarity, best_match)

\* "if sim > max_sim: max_sim = sim"
Larger(sim, max_sim) == IF SimGT(sim, max_sim) THEN sim ELSE max_sim

\* max_sim over the non-empty names of [country_name] + possible_names; the
\* names are lower-cased but not stripped here
RECURSIVE max_similarity(_, _, _, _)
max_similarity(search_term, names, k, max_sim) ==
  IF k > Len(names) THEN max_sim
  ELSE max_similarity(search_term, names, k + 1,
                      Larger(_calculate_similarity(search_term, Lower(names[k])), max_sim))

\* "if max_sim >= 0.5: suggestions_list.append(...)" for country c, in front
\* of the entries of the countries behind it
country_match(c, max_sim, rest) ==
  IF c.code # <<>> /\ SimGE(max_sim, MinSimilarity)
    THEN <<[id         |-> StrV(c.code),
            name       |-> country_item_name(c),
            similarity |-> Percent(max_sim)]>> \o rest
  ELSE rest

RECURSIVE country_matches(_, _, _)
country_matches(search_term, countries, i) ==
  IF i > Len(countries) THEN <<>>
  ELSE country_match(countries[i],
                     max_similarity(search_term,
                                    Named(<<country_item_name(countries[i])>>
                                          \o country_names(countries[i])),
                                    1, Zero),
                     country_matches(search_term, countries, i + 1))

\* the sort key of each entry: its rounded percentage
keyed(list) ==
  [k \in 1..Len(list) |-> [entity |-> list[k], similarity |-> Frac(list[k].similarity, 1)]]

unkeyed(top) == [k \in 1..Len(top) |-> top[k].entity]

\* suggestions_list.sort(key=similarity, reverse=True)[:5], on the rounded
\* percentage
country_suggestions(search_term, countries) ==
  unkeyed(Cut(SortDesc(keyed(country_matches(search_term, countries, 1))), MaxResults))

\* resolve_country behind its loops: scan is what they left
country_after_loop(search_term, return_suggestions, cache, countries, scan) ==
  IF scan.hit # "none"
    THEN Resolved(return_suggestions, cache, search_term, StrV(countries[scan.at].code), 1)
  ELSE IF scan.best_match # 0 /\ SimGE(scan.best_similarity, AutoAccept)
    THEN Resolved(return_suggestions, cache, search_term,
                  StrV(countries[scan.best_match].code), 1)
  ELSE Outcome(Return(return_suggestions, None,
                      country_suggestions(search_term, countries)), cache, 1)

\* resolve_country from "countries = self.client.get_countries()" on
country_from_api(text, search_term, return_suggestions, cache, countries) ==
  country_after_loop(search_term, return_suggestions, cache, countries,
                     country_loop(countries, text, 1, 0, Zero, 0))

\* resolve_country behind search_term: the cache, the test data (by_name and
\* by_code are rows of COUNTRIES, 0 for None), the API
country_by_name(value, text, search_term, return_suggestions, cache, rows, failAt, by_name, by_code) ==
  IF cached(cache, search_term) THEN FromCache(return_suggestions, cache, search_term)
  \* get_country_by_name(value) calls value.lower(): an int has none
  ELSE IF value.t = "int" THEN Outcome(Raise("AttributeError"), cache, 0)
  ELSE IF by_name # 0
    THEN Resolved(return_suggestions, cache, search_term, StrV(COUNTRIES[by_name].code), 0)
  ELSE IF by_code # 0
    THEN Resolved(return_suggestions, cache, search_term, StrV(COUNTRIES[by_code].code), 0)
  ELSE country_from_api(text, search_term, return_suggestions, cache,
                        get_countries(rows, failAt, 0))

\* resolve_country on text = str(value), for a value that is no country code
country_by_text(value, text, return_suggestions, cache, rows, failAt) ==
  country_by_name(value, text, normalize(text), return_suggestions, cache, rows, failAt,
                  get_country_by_name(value.s), get_country_by_code(value.s))

\* Variant of resolve_country without the early return of a code; C12 must
\* not survive it.
resolve_country_by_lookup(value, return_suggestions, cache, rows, failAt) ==
  country_by_text(value, IF value.t = "str" THEN value.s ELSE IntStr(value.n),
                  return_suggestions, cache, rows, failAt)

resolve_country(value, return_suggestions, cache, rows, failAt) ==
  IF value.t = "str" /\ Len(value.s) <= 3 /\ IsUpper(value.s)
    THEN Outcome(Return(return_suggestions, StrV(Upper(value.s)), <<>>), cache, 0)
  ELSE country_by_text(value, IF value.t = "str" THEN value.s ELSE IntStr(value.n),
                       return_suggestions, cache, rows, failAt)

(***************************************************************************)
(* EntityResolver.resolve_filters.  A filter bundle is a function from key *)
(* names to values.  The run is threaded through a record: the mapping     *)
(* being rewritten, the error texts collected so far (one entry per failed *)
(* field: the field, the name and the suggestion lines of its "Did you     *)
(* mean" section), the exception that left the function ("none": none      *)
(* yet), the three caches, the fetches made and the fields attempted.      *)
(***************************************************************************)
Drop(f, key) == [k \in (DOMAIN f) \ {key} |-> f[k]]

FirstFive(l) == Cut(l, 5)

\* error_msg = "Could not find <field>: <name>" plus, if suggestions, the
\* section "Did you mean one of these?" with one line per suggestion[:5]
ErrorMsg(field, name, suggestions) ==
  [field |-> field, name |-> name, lines |-> FirstFive(suggestions)]

\* id, suggestions = resolve_x(name, return_suggestions=True): unpacking a
\* bare int raises TypeError; an exception of the call propagates
Unpack(ret) ==
  IF ret.shape = "raise" THEN ret.exc
  ELSE IF ret.shape = "bare" THEN "TypeError"
  ELSE "none"

\* Variant of FilterStep that never collects an error; C10 must not survive it.
FilterStepSilent(st, key, idkey, field, out, quiet) ==
  LET ret  == out.ret
      st1  == [st EXCEPT !.caches[field] = out.cache,
                         !.fetched = @ + out.fetched,
                         !.attempted = @ \cup {key}]
  IN  IF ret.shape = "raise" THEN [st1 EXCEPT !.exc = ret.exc]
      ELSE IF ret.shape = "bare" THEN [st1 EXCEPT !.exc = "TypeError"]
      ELSE IF Truthy(ret.id)
        THEN [st1 EXCEPT !.resolved = Put(Drop(st.resolved, key), idkey, ret.id)]
      ELSE st1

\* one "if <key> in resolved:" block: rewrite on a truthy id, else collect the
\* error; quiet: the "country" block, which reports only if it has suggestions
FilterStep(st, key, idkey, field, out, quiet) ==
  LET ret  == out.ret
      st1  == [st EXCEPT !.caches[field] = out.cache,
                         !.fetched = @ + out.fetched,
                         !.attempted = @ \cup {key}]
  IN  IF Unpack(ret) # "none" THEN [st1 EXCEPT !.exc = Unpack(ret)]
      ELSE IF Truthy(ret.id)
        THEN [st1 EXCEPT !.resolved = Put(Drop(st.resolved, key), idkey, ret.id)]
      ELSE IF quiet /\ ret.sugg = <<>> THEN st1
      ELSE [st1 EXCEPT !.errors = Append(@, ErrorMsg(field, st.resolved[key], ret.sugg))]

\* if 'offer_name' in resolved: ...
offer_block(st, up, failAt) ==
  IF "offer_name" \in DOMAIN st.resolved
    THEN FilterStep(st, "offer_name", "offer_id", "offer",
                    resolve_offer(st.resolved["offer_name"], TRUE,
                                  st.caches.offer, up.offers, failAt.offers),
                    FALSE)
  ELSE st

\* if 'affiliate_name' in resolved: ...  (not reached behind an exception)
affiliate_block(st, up, failAt) ==
  IF st.exc = "none" /\ "affiliate_name" \in DOMAIN st.resolved
    THEN FilterStep(st, "affiliate_name", "affiliate_id", "affiliate",
                    resolve_affiliate(st.resolved["affiliate_name"], TRUE,
                                      st.caches.affiliate, up.affiliates, failAt.affiliates),
                    FALSE)
  ELSE st

\* if 'country_name' in resolved: ...
\* elif 'country' in resolved and 'country_code' not in resolved: ...
country_block(st, up, failAt) ==
  IF st.exc # "none" THEN st
  ELSE IF "country_name" \in DOMAIN st.resolved
    THEN FilterStep(st, "country_name", "country_code", "country",
                    resolve_country(st.resolved["country_name"], TRUE,
                                    st.caches.country, up.countries, failAt.countries),
                    FALSE)
  ELSE IF "country" \in DOMAIN st.resolved /\ "country_code" \notin DOMAIN st.resolved
    THEN FilterStep(st, "country", "country_code", "country",
                    resolve_country(st.resolved["country"], TRUE,
                                    st.caches.country, up.countries, failAt.countries),
                    TRUE)
  ELSE st

\* if errors: raise ValueError("\n\n".join(errors))
raise_errors(st) ==
  IF st.exc = "none" /\ st.errors # <<>> THEN [st EXCEPT !.exc = "ValueError"] ELSE st

resolve_filters(filters, caches, up, failAt) ==
  raise_errors(
    country_block(
      affiliate_block(
        offer_block([resolved |-> filters, errors |-> <<>>, exc |-> "none",
                     caches |-> caches, fetched |-> 0, attempted |-> {}],
                    up, failAt),
        up, failAt),
      up, failAt))

(***************************************************************************)
(* The upstream catalogues the model draws from and the values handed to   *)
(* the resolve operations.                                                 *)
(***************************************************************************)
AffiliatesA ==
  <<[id |-> 4, hasName |-> TRUE, name |-> <<"a","x","b","d">>],
     [id |-> 1, hasName |-> TRUE, name |-> <<"a","b","c">>],
     [id |-> 2, hasName |-> TRUE, name |-> <<"a","c">>],
     [id |-> 3, hasName |-> TRUE, name |-> <<"b","x","c">>],
     [id |-> 8, hasName |-> TRUE, name |-> <<"a","y","c">>],
     [id |-> 9, hasName |-> TRUE, name |-> <<"a","c","x">>]>>

AffiliatesB ==
  <<[id |-> 5, hasName |-> TRUE, name |-> <<"a","b","x","c">>],
     [id |-> 6, hasName |-> TRUE, name |-> <<"z","a","b","c","z">>],
     [id |-> 2, hasName |-> TRUE, name |-> <<"a"," ","(","b",")">>],
     [id |-> 0, hasName |-> TRUE, name |-> <<"a","b","c">>],
     [id |-> 3, hasName |-> FALSE, name |-> <<>>]>>

OffersA ==
  <<[id |-> 10, hasName |-> TRUE, name |-> <<"F","o"," ","[","x","]">>],
     [id |-> 11, hasName |-> TRUE, name |-> <<"b","a","r"," ","b","a","z"," ","q","u","x">>],
     [id |-> 12, hasName |-> TRUE, name |-> <<"f","o","b">>],
     [id |-> 13, hasName |-> TRUE, name |-> <<"f","x","o">>],
     [id |-> 14, hasName |-> TRUE, name |-> <<"f","a","o">>],
     [id |-> 15, hasName |-> TRUE, name |-> <<"f","o"," ","x","y">>],
     [id |-> 16, hasName |-> TRUE, name |-> <<"f","o","y">>]>>

OffersB ==
  <<[id |-> 20, hasName |-> TRUE, name |-> <<"f","o","z"," ","b","a","r">>],
     [id |-> 21, hasName |-> TRUE, name |-> <<"f","o"," "," ","(","X",")">>],
     [id |-> 0, hasName |-> TRUE, name |-> <<"f","o">>],
     [id |-> 23, hasName |-> TRUE, name |-> <<"f","o"," ","x">>],
     [id |-> 22, hasName |-> FALSE, name |-> <<>>]>>

CountriesA ==
  <<[country_code |-> <<"Z","Z">>, country_name |-> <<"N","e","w"," ","Z","e","d","l","a","n","d">>, country |-> <<>>],
     [country_code |-> <<"Z","A">>, country_name |-> <<>>, country |-> <<"Z","a","d","l","u","n","d">>],
     [country_code |-> <<"Z","B">>, country_name |-> <<"Z","e","d","i","s","t","a","n">>, country |-> <<>>],
     [country_code |-> <<"Z","C">>, country_name |-> <<>>, country |-> <<"z","i","d","l","a","n","d">>],
     [country_code |-> <<"Z","D">>, country_name |-> <<"Z","e","d","l","a","n","d","o">>, country |-> <<>>],
     [country_code |-> <<"Z","E">>, country_name |-> <<"E","d","l","a","n","d">>, country |-> <<>>]>>

CountriesB ==
  <<[country_code |-> <<"Q","Q">>, country_name |-> <<"Z","e","d","l","a","n","d">>, country |-> <<>>],
     [country_code |-> <<"Z","Z">>, country_name |-> <<"z","e","d","x","l","e","n","d">>, country |-> <<"Z","e","d","i","s","t","a","n">>],
     [country_code |-> <<>>, country_name |-> <<"N","o","w","h","e","r","e">>, country |-> <<>>],
     [country_code |-> <<"Q","Q">>, country_name |-> <<"D","u","p">>, country |-> <<>>]>>

\* The upstream over time: catalogue A, then the revised catalogue B, then an
\* outage (fail = 1: the request for page 1 raises).
UpstreamA == [affiliates |-> AffiliatesA, offers |-> OffersA, countries |-> CountriesA, fail |-> 0]
UpstreamB == [affiliates |-> AffiliatesB, offers |-> OffersB, countries |-> CountriesB, fail |-> 0]
UpstreamDown == [UpstreamB EXCEPT !.fail = 1]
Upstreams == <<UpstreamA, UpstreamB, UpstreamDown>>

AffiliateValues ==
  {IntV(7),
   StrV(<<"a","b","c">>),
   StrV(<<" ","A","B","C">>),
   StrV(<<"a","x","c">>),
   StrV(<<"a"," ","[","b","]">>)}

OfferValues ==
  {IntV(7),
   StrV(<<"f","o"," ","(","x",")">>),
   StrV(<<"F","o"," "," ","[","X","]"," ">>),
   StrV(<<"f","o","x">>)}

CountryValues ==
  {IntV(5),
   StrV(<<"U","S">>),
   StrV(<<"u","s">>),
   StrV(<<"z","e","d","l","a","n","d">>),
   StrV(<<"Z","e","d","l","e","n","d">>)}

(***************************************************************************)
(* The state: one EntityResolver (its three caches), the upstream it       *)
(* fetches from, the last call with what it returned, the number of calls  *)
(* made, and per kind and normalized term the number of collection fetches *)
(* made for it; and one EverflowAPIValidator (its _initialized flag and    *)
(* its endpoint_specs table); the page loop of a fetch of the client that  *)
(* is under way (paging); and the requests that are resolving a term on    *)
(* the resolver at the same time, each with how far it has come (inflight).*)
(***************************************************************************)
VARIABLES _affiliate_cache, _offer_cache, _country_cache,
          upstream, last, calls, fetch_count,
          _initialized, endpoint_specs,
          paging, inflight

vars == <<_affiliate_cache, _offer_cache, _country_cache,
          upstream, last, calls, fetch_count,
          _initialized, endpoint_specs,
          paging, inflight>>

\* the resolver and what it fetches from; the validator
resolver == <<_affiliate_cache, _offer_cache, _country_cache, upstream, calls, fetch_count>>
validator == <<_initialized, endpoint_specs>>
\* what is under way
underway == <<paging, inflight>>

MaxCalls == 2

EmptyMap == [k \in {} |-> None]

Caches == [affiliate |-> _affiliate_cache, offer |-> _offer_cache,
           country |-> _country_cache]

\* the cache key of a call: str(value).strip().lower()
KeyOf(value) == Lower(Strip(IF value.t = "int" THEN IntStr(value.n) ELSE value.s))

\* count the fetches of a call under its kind and key
Count(fc, kind, key, fetched) ==
  IF fetched = 0 THEN fc
  ELSE Put(fc, <<kind, key>>,
           (IF <<kind, key>> \in DOMAIN fc THEN fc[<<kind, key>>] ELSE 0) + fetched)

\* EntityResolver.__init__: empty caches; EverflowAPIValidator.__init__: no
\* endpoint specification, not initialized
\* no fetch is under way
NoFetch == [op |-> "none", status |-> "idle", limit |-> 0, page |-> 0, collected |-> 0,
            requested |-> 0]

\* no request is resolving
NoRequests == <<>>

Init ==
  /\ paging = NoFetch
  /\ inflight = NoRequests
  /\ _initialized = FALSE
  /\ endpoint_specs = <<>>
  /\ _affiliate_cache = EmptyMap
  /\ _offer_cache = EmptyMap
  /\ _country_cache = EmptyMap
  /\ upstream = Upstreams[1]
  /\ last = [op |-> "none"]
  /\ calls = 0
  /\ fetch_count = EmptyMap

\* a call of a resolve operation: the cache of its kind is what the call left
Called(op, kind, value, return_suggestions, out) ==
  /\ _affiliate_cache' = IF kind = "affiliate" THEN out.cache ELSE _affiliate_cache
  /\ _offer_cache' = IF kind = "offer" THEN out.cache ELSE _offer_cache
  /\ _country_cache' = IF kind = "country" THEN out.cache ELSE _country_cache
  /\ last' = [op |-> op, kind |-> kind, value |-> value, key |-> KeyOf(value),
              return_suggestions |-> return_suggestions,
              ret |-> out.ret, fetched |-> out.fetched, before |-> Caches,
              fetched_from |-> upstream]
  /\ calls' = calls + 1
  /\ fetch_count' = Count(fetch_count, kind, KeyOf(value), out.fetched)
  /\ UNCHANGED <<upstream, validator, underway>>

ResolveAffiliate(value, return_suggestions) ==
  /\ calls < MaxCalls
  /\ Called("resolve_affiliate", "affiliate", value, return_suggestions,
            resolve_affiliate(value, return_suggestions, _affiliate_cache,
                              upstream.affiliates, upstream.fail))

ResolveOffer(value, return_suggestions) ==
  /\ calls < MaxCalls
  /\ Called("resolve_offer", "offer", value, return_suggestions,
            resolve_offer(value, return_suggestions, _offer_cache,
                          upstream.offers, upstream.fail))

ResolveCountry(value, return_suggestions) ==
  /\ calls < MaxCalls
  /\ Called("resolve_country", "country", value, return_suggestions,
            resolve_country(value, return_suggestions, _country_cache,
                            upstream.countries, upstream.fail))

\* between two calls the upstream moves on to a later phase
UpstreamChange(u) ==
  /\ calls < MaxCalls
  /\ \E i, j \in 1..Len(Upstreams) :
        i < j /\ upstream = Upstreams[i] /\ u = Upstreams[j]
  /\ upstream' = u
  /\ UNCHANGED <<_affiliate_cache, _offer_cache, _country_cache, last, calls, fetch_count,
                 validator, underway>>

Next ==
  \/ \E v \in AffiliateValues, rs \in BOOLEAN : ResolveAffiliate(v, rs)
  \/ \E v \in OfferValues, rs \in BOOLEAN : ResolveOffer(v, rs)
  \/ \E v \in CountryValues, rs \in BOOLEAN : ResolveCountry(v, rs)
  \/ \E u \in {UpstreamB, UpstreamDown} : UpstreamChange(u)

Spec == Init /\ [][Next]_vars

(***************************************************************************)
(* resolve_filters as an operation of the resolver: the filter bundles the *)
(* model hands to it, and the specification of a resolver that serves      *)
(* resolve_filters calls.                                                  *)
(***************************************************************************)
BundleOfferAndSource ==
  ("offer_name" :> StrV(<<"f","o"," ","(","x",")">>)) @@ ("source_id" :> IntV(1))

BundleOfferOnly ==
  ("offer_name" :> StrV(<<"f","o","x">>))

BundleOfferIdAndSource ==
  ("offer_name" :> IntV(7)) @@ ("source_id" :> IntV(1))

BundleOfferIdAndAffiliate ==
  ("offer_name" :> IntV(7)) @@ ("affiliate_name" :> StrV(<<"a"," ","[","b","]">>))

BundleAllThree ==
  ("offer_name" :> StrV(<<"f","o","x">>)) @@ ("affiliate_name" :> StrV(<<"a","x","c">>)) @@ ("country_name" :> StrV(<<"Z","e","d","l","e","n","d">>))

BundleOfferAndCountryNumber ==
  ("offer_name" :> StrV(<<"f","o","x">>)) @@ ("country_name" :> IntV(5))

BundleCountryUnknown ==
  ("country" :> StrV(<<"x","x">>))

BundleCountryOnly ==
  ("country" :> StrV(<<"Z","e","d","l","e","n","d">>))

BundleCountryNameAndCountry ==
  ("country_name" :> StrV(<<"u","s">>)) @@ ("country" :> StrV(<<"z","e","d","l","a","n","d">>))

BundleCountryAndCode ==
  ("country" :> StrV(<<"z","e","d","l","a","n","d">>)) @@ ("country_code" :> StrV(<<"D","E">>))

FilterBundles ==
  {BundleOfferAndSource,
   BundleOfferOnly,
   BundleOfferIdAndSource,
   BundleOfferIdAndAffiliate,
   BundleAllThree,
   BundleOfferAndCountryNumber,
   BundleCountryUnknown,
   BundleCountryOnly,
   BundleCountryNameAndCountry,
   BundleCountryAndCode}

\* a call of resolve_filters that ended in state st of its run
FiltersCalled(filters, st) ==
  /\ _affiliate_cache' = st.caches.affiliate
  /\ _offer_cache' = st.caches.offer
  /\ _country_cache' = st.caches.country
  /\ last' = [op |-> "resolve_filters", filters |-> filters, exc |-> st.exc,
              resolved |-> st.resolved, errors |-> st.errors,
              attempted |-> st.attempted, fetched |-> st.fetched,
              before |-> Caches, fetched_from |-> upstream]
  /\ calls' = calls + 1
  /\ UNCHANGED <<upstream, fetch_count, validator, underway>>

ResolveFilters(filters) ==
  /\ calls < MaxCalls
  /\ FiltersCalled(filters,
                   resolve_filters(filters, Caches, upstream,
                                   [affiliates |-> upstream.fail, offers |-> upstream.fail,
                                    countries |-> upstream.fail]))

NextFilters ==
  \/ \E filters \in FilterBundles : ResolveFilters(filters)
  \/ \E u \in {UpstreamB, UpstreamDown} : UpstreamChange(u)

SpecFilters == Init /\ [][NextFilters]_vars

(***************************************************************************)
(* The EverflowClient on its own: calls of get_affiliates and get_offers   *)
(* against an upstream that holds a number of records, each with its id,   *)
(* with a limit (0: None) and possibly a request that fails (failAt, 0:    *)
(* none).  The client keeps nothing between two calls.                     *)
(***************************************************************************)
\* the records of an upstream that holds n of them, ids 1..n in this order
Records(n) == [i \in 1..n |-> [id |-> i, hasName |-> TRUE, name |-> <<"n">>]]

\* no records; one short page; one full page; two full pages; two full pages
\* and a short one; more full pages than the client ever asks for
FetchSizes == {0, 20, 50, 100, 120, 2600}

\* upstreams that are not the one the client is written for: pages of fewer
\* and of more records than page_size, no total_count, a total_count below
\* and above the number of records
OtherUpstreams ==
  {Serving(Records(120), 25, 120), Serving(Records(120), 100, 120),
   Serving(Records(120), 60, 0), Serving(Records(120), page_size, 0),
   Serving(Records(120), page_size, 50), Serving(Records(120), page_size, 500),
   Serving(Records(40), 25, 0)}

FetchUpstreams == {Nominal(Records(n)) : n \in FetchSizes} \cup OtherUpstreams

\* the limit of a call: whether the caller supplies one, and its value; "if
\* limit" is false for None and for 0 alike, and both are handed on as 0
Limit(supplied, n) == [supplied |-> supplied, n |-> n]
FetchLimits == {Limit(FALSE, 0), Limit(TRUE, 0), Limit(TRUE, 30), Limit(TRUE, 70)}
FailingPages == {0, 1, 2, 3}

\* a call of get_affiliates / get_offers: what it returned (ret) and the run
\* of its page loop
FetchCalled(op, up, limit, failAt, ret, run) ==
  last' = [op |-> op, served |-> Len(up.recs), size |-> up.size, total |-> up.total,
           supplied |-> limit.supplied, limit |-> limit.n, failAt |-> failAt,
           ret |-> ret, ok |-> run.ok, requested |-> run.requested]

GetAffiliates(up, limit, failAt) ==
  /\ FetchCalled("get_affiliates", up, limit, failAt,
                 get_affiliates(up, failAt, limit.n),
                 fetch_pages(up, failAt, limit.n, 1, NoRun, "affiliates"))
  /\ UNCHANGED <<resolver, validator, underway>>

GetOffers(up, limit, failAt) ==
  /\ FetchCalled("get_offers", up, limit, failAt,
                 get_offers(up, failAt, limit.n),
                 fetch_pages(up, failAt, limit.n, 1, NoRun, "offers"))
  /\ UNCHANGED <<resolver, validator, underway>>

NextFetch ==
  \/ \E up \in FetchUpstreams, limit \in FetchLimits, failAt \in FailingPages :
        GetAffiliates(up, limit, failAt)
  \/ \E up \in FetchUpstreams, limit \in FetchLimits, failAt \in FailingPages :
        GetOffers(up, limit, failAt)

SpecFetch == Init /\ [][NextFetch]_vars

(***************************************************************************)
(* Properties.  Similarity scores of suggestions are kept in tenths of a   *)
(* percent: 1000 is 100.0.                                                 *)
(***************************************************************************)
SingleOps == {"resolve_affiliate", "resolve_offer", "resolve_country"}
Kinds == {"affiliate", "offer", "country"}

\* the collection a call of the kind fetched, and the candidates in it
Coll(kind, up) ==
  CASE kind = "affiliate" -> get_affiliates(Nominal(up.affiliates), up.fail, 0)
    [] kind = "offer"     -> get_offers(Nominal(up.offers), up.fail, 0)
    [] kind = "country"   -> get_countries(up.countries, up.fail, 0)

NamesOf(kind, e) ==
  CASE kind = "affiliate" -> Named(affiliate_names(e))
    [] kind = "offer"     -> Named(offer_names(e))
    [] kind = "country"   -> Named(country_names(e))

IdOf(kind, e) ==
  CASE kind = "affiliate" -> IntV(e.affiliate_id)
    [] kind = "offer"     -> IntV(e.offer_id)
    [] kind = "country"   -> StrV(e.code)

\* the rung of the matching ladder on which the term hits some candidate
Rung(kind, coll, text) ==
  CASE kind = "affiliate" -> affiliate_loop(coll, Lower(Strip(text)), 1, 1, Zero, 0).hit
    [] kind = "offer"     -> offer_loop(coll, Lower(Strip(text)), 1, 1, Zero, 0).hit
    [] kind = "country"   -> country_loop(coll, text, 1, 0, Zero, 0).hit

\* a string after case-folding, trimming, replacing [ ] by ( ) and collapsing
\* runs of whitespace
Canon(text) ==
  LET t == Lower(Strip(text))
  IN  JoinSp(Split([i \in 1..Len(t) |->
                      IF t[i] = "[" THEN "(" ELSE IF t[i] = "]" THEN ")" ELSE t[i]]))

\* the form in which the kind's fuzzy match compares a term or a name
Comparable(kind, text) ==
  IF kind = "offer" THEN Canon(text) ELSE Lower(Strip(text))

\* the candidates <<i, j>>: name j of entity i of the collection
Candidates(kind, coll) ==
  {p \in (1..Len(coll)) \X (1..9) : p[2] <= Len(NamesOf(kind, coll[p[1]]))}

\* the similarity of the term to every candidate
Similarity(kind, coll, text) ==
  [p \in Candidates(kind, coll) |->
     _calculate_similarity(Comparable(kind, text),
                           Comparable(kind, NamesOf(kind, coll[p[1]])[p[2]]))]

Before(p, q) == p[1] < q[1] \/ (p[1] = q[1] /\ p[2] <= q[2])

\* the first candidate, in the order of the collection, of highest similarity
FirstBest(sim) ==
  CHOOSE p \in DOMAIN sim :
    \A q \in DOMAIN sim :
      /\ SimGE(sim[p], sim[q])
      /\ SimGE(sim[q], sim[p]) => Before(p, q)

\* C1: an integer handed to resolve_affiliate or resolve_offer comes back
\* unchanged, no collection is fetched and the caches are as they were.
C1_IntegerPassThrough ==
  (last.op \in {"resolve_affiliate", "resolve_offer"} /\ last.value.t = "int")
    => /\ last.ret.exc = "none"
       /\ last.ret.id = last.value
       /\ last.ret.sugg = <<>>
       /\ last.fetched = 0
       /\ Caches = last.before

\* an integer passed through resolve_offer of a resolver whose offer cache
\* already holds an entry
C1_Witness ==
  /\ last.op = "resolve_offer"
  /\ last.value = IntV(7)
  /\ last.ret.id = IntV(7)
  /\ last.before.offer # EmptyMap
  /\ _offer_cache = last.before.offer

\* C2 as stated: over any sequence of calls, the collection is fetched at most
\* once for one normalized term of one kind.
C2_FetchAtMostOnce ==
  \A k \in DOMAIN fetch_count : fetch_count[k] <= 1

\* the country call returns an upper-case string of at most 3 characters as
\* it is, before it looks at the cache
CodePassThrough(l) ==
  l.kind = "country" /\ Len(l.value.s) <= 3 /\ IsUpper(l.value.s)

\* C2, amended: a call with a string whose normalized form the cache of its
\* kind already holds returns the cached identifier, fetches nothing and
\* leaves the fetch counts as they were (a country code passed through aside).
C2_CachedTermNoFetch ==
  [][ ( /\ calls' = calls + 1
        /\ last'.op \in SingleOps
        /\ last'.value.t = "str"
        /\ last'.key \in DOMAIN Caches[last'.kind]
        /\ ~CodePassThrough(last') )
      => /\ last'.ret.exc = "none"
         /\ last'.ret.id = Caches[last'.kind][last'.key]
         /\ last'.fetched = 0
         /\ fetch_count' = fetch_count
         /\ Caches' = Caches ]_vars

\* " ABC" after "abc": the second call finds the term cached by the first,
\* which fetched the collection once
C2_Witness ==
  /\ last.op = "resolve_affiliate"
  /\ last.value = StrV(<<" ","A","B","C">>)
  /\ last.key \in DOMAIN last.before.affiliate
  /\ last.ret.id = last.before.affiliate[last.key]
  /\ last.fetched = 0
  /\ <<"affiliate", last.key>> \in DOMAIN fetch_count
  /\ fetch_count[<<"affiliate", last.key>>] = 1

\* C3: an entry of a cache is never removed and never changed to another
\* identifier, whatever the upstream does between the calls.
C3_CacheEntriesStable ==
  [][ \A kind \in Kinds : \A term \in DOMAIN Caches[kind] :
        /\ term \in DOMAIN Caches'[kind]
        /\ Caches'[kind][term] = Caches[kind][term] ]_vars

\* "abc" was cached as affiliate 1 from catalogue A; asked again when the
\* upstream serves catalogue B, where "abc" would match affiliate 6, the
\* resolver still answers 1
C3_Witness ==
  /\ last.op = "resolve_affiliate"
  /\ last.key = <<"a","b","c">>
  /\ last.fetched_from = UpstreamB
  /\ last.ret.id = IntV(1)
  /\ _affiliate_cache[last.key] = IntV(1)
  /\ resolve_affiliate(last.value, FALSE, EmptyMap,
                       UpstreamB.affiliates, UpstreamB.fail).ret.id = IntV(6)

\* a call of the kind that went to the collection with a string term resolves
\* it to the first entity that has a name of the same canonical form, or to an
\* entity in front of it
SameFormResolves(kind) ==
  ( /\ last.op \in SingleOps
    /\ last.kind = kind
    /\ last.value.t = "str"
    /\ last.fetched = 1 )
  => LET coll == Coll(kind, last.fetched_from)
         same == {i \in 1..Len(coll) :
                    \E j \in 1..Len(NamesOf(kind, coll[i])) :
                      Canon(NamesOf(kind, coll[i])[j]) = Canon(last.value.s)}
     IN  same # {} =>
           \E i \in 1..SetMin(same) : last.ret.id = IdOf(kind, coll[i])

C5_SuggestionLists ==
  (last.op \in SingleOps /\ last.ret.shape = "pair")
    => LET s == last.ret.sugg
       IN  /\ Len(s) <= 5
           /\ \A k \in 1..(Len(s) - 1) : s[k].similarity >= s[k + 1].similarity
           /\ \A k \in 1..Len(s) : s[k].similarity \in 0..1000

\* "Zedlend" against catalogue A: six countries are similar enough, the list
\* has five, and its first entry is the fifth country of the collection
C5_Witness ==
  /\ last.op = "resolve_country"
  /\ last.ret.shape = "pair"
  /\ Len(last.ret.sugg) = 5
  /\ last.ret.sugg[1].id = StrV(<<"Z","D">>)
  /\ last.ret.sugg[1].similarity > last.ret.sugg[5].similarity
  /\ Len(country_matches(last.key, Coll("country", last.fetched_from), 1)) = 6

\* a call that went to the collection, where the best similarity of a
\* candidate name is at least 0.85 (and, with noRung, no candidate is hit on a
\* rung of the ladder), returns the first best candidate's identifier with no
\* suggestions and has cached it
FuzzyAccepted(kind, noRung) ==
  ( /\ last.op \in SingleOps
    /\ last.kind = kind
    /\ last.value.t = "str"
    /\ last.fetched = 1 )
  => LET coll == Coll(kind, last.fetched_from)
         sim  == Similarity(kind, coll, last.value.s)
         best == FirstBest(sim)
     IN  ( /\ Candidates(kind, coll) # {}
           /\ SimGE(sim[best], Frac(85, 100))
           /\ noRung => Rung(kind, coll, last.value.s) = "none" )
         => /\ last.ret.id = IdOf(kind, coll[best[1]])
            /\ last.ret.sugg = <<>>
            /\ last.ret.shape = IF last.return_suggestions THEN "pair" ELSE "bare"
            /\ last.key \in DOMAIN Caches[kind]
            /\ Caches[kind][last.key] = last.ret.id

NameKeys == {"offer_name", "affiliate_name", "country_name", "country"}

IdKey(key) ==
  CASE key = "offer_name"     -> "offer_id"
    [] key = "affiliate_name" -> "affiliate_id"
    [] key = "country_name"   -> "country_code"
    [] key = "country"        -> "country_code"

FieldOf(key) ==
  CASE key = "offer_name"     -> "offer"
    [] key = "affiliate_name" -> "affiliate"
    [] key = "country_name"   -> "country"
    [] key = "country"        -> "country"

\* what the single-field operation of a name key answers for the value, on
\* the caches and the upstream of the resolve_filters call l
Single(l, key, return_suggestions) ==
  CASE key = "offer_name" ->
         resolve_offer(l.filters[key], return_suggestions, l.before.offer,
                       l.fetched_from.offers, l.fetched_from.fail)
    [] key = "affiliate_name" ->
         resolve_affiliate(l.filters[key], return_suggestions, l.before.affiliate,
                           l.fetched_from.affiliates, l.fetched_from.fail)
    [] key \in {"country_name", "country"} ->
         resolve_country(l.filters[key], return_suggestions, l.before.country,
                         l.fetched_from.countries, l.fetched_from.fail)

\* the name under the key resolves: the single-field operation answers an
\* identifier
Resolves(l, key) ==
  Single(l, key, FALSE).ret.exc = "none" /\ Single(l, key, FALSE).ret.id # None

Present(l) == NameKeys \cap DOMAIN l.filters

\* the message of the error a resolve_filters call raised: the blocks of a
\* ValueError; another exception carries none of them
Message(l) == IF l.exc = "ValueError" THEN l.errors ELSE <<>>

\* C7: when every name key of the bundle resolves, resolve_filters returns
\* the bundle with each name key replaced by its ID key and the resolved
\* identifier, every other key as it was.
C7_NamesRewritten ==
  (last.op = "resolve_filters" /\ \A key \in Present(last) : Resolves(last, key))
    => /\ last.exc = "none"
       /\ DOMAIN last.resolved =
            ((DOMAIN last.filters) \ NameKeys) \cup {IdKey(key) : key \in Present(last)}
       /\ \A key \in Present(last) :
            \E n \in Present(last) :
              /\ IdKey(n) = IdKey(key)
              /\ last.resolved[IdKey(key)] = Single(last, n, FALSE).ret.id
       /\ \A key \in (DOMAIN last.filters) \ (NameKeys \cup {IdKey(n) : n \in Present(last)}) :
            last.resolved[key] = last.filters[key]

\* C8: when the offer_name of the bundle cannot be resolved, resolve_filters
\* raises an error, and its message has a suggestion section for the offer
\* with at least one line exactly if some offer of the collection has
\* similarity at least 0.5 to the name.
C8_OfferSuggestionSection ==
  ( /\ last.op = "resolve_filters"
    /\ "offer_name" \in DOMAIN last.filters
    /\ ~Resolves(last, "offer_name") )
  => LET offers == Coll("offer", last.fetched_from)
         name   == Lower(Strip(last.filters["offer_name"].s))
     IN  /\ last.exc # "none"
         /\ (\E e \in 1..Len(Message(last)) :
               Message(last)[e].field = "offer" /\ Message(last)[e].lines # <<>>)
            <=> (\E i \in 1..Len(offers) :
                   SimGE(_calculate_similarity(name, Lower(Strip(offers[i].offer_name))),
                         Frac(5, 10)))

\* C9: when resolve_filters raises, it has attempted every name key of the
\* bundle, and the one error it raises names every field that failed to
\* resolve.
C9_AllAttemptedOneError ==
  (last.op = "resolve_filters" /\ last.exc # "none")
    => /\ last.attempted = Present(last)
       /\ \A key \in Present(last) :
            ~Resolves(last, key) =>
              \E e \in 1..Len(Message(last)) : Message(last)[e].field = FieldOf(key)

CountryLookedAt(l) ==
  /\ "country" \in DOMAIN l.filters
  /\ "country_name" \notin DOMAIN l.filters
  /\ "country_code" \notin DOMAIN l.filters

C11_NeverRaises ==
  last.op \in SingleOps
    => /\ last.ret.exc = "none"
       /\ last.ret.id.t \in {"int", "str", "none"}

\* C12: resolve_country hands back an upper-case string of at most 3
\* characters as it is: no collection is fetched, the caches stay as they were
\* and no suggestions are made.
C12_CodeVerbatim ==
  ( /\ last.op = "resolve_country"
    /\ last.value.t = "str"
    /\ Len(last.value.s) <= 3
    /\ IsUpper(last.value.s) )
  => /\ last.ret.exc = "none"
     /\ last.ret.id = last.value
     /\ last.ret.sugg = <<>>
     /\ last.fetched = 0
     /\ Caches = last.before

\* "US" handed to a resolver that has resolved another country term before
C12_Witness ==
  /\ last.op = "resolve_country"
  /\ last.value = StrV(<<"U","S">>)
  /\ last.ret.id = StrV(<<"U","S">>)
  /\ last.before.country # EmptyMap
  /\ _country_cache = last.before.country

FetchOps == {"get_affiliates", "get_offers"}

\* the ids of the records a fetch returned, in the order of the list
ReturnedIds(l) ==
  [k \in 1..Len(l.ret) |->
     IF l.op = "get_affiliates" THEN l.ret[k].affiliate_id ELSE l.ret[k].offer_id]

\* C13: without a limit and without a failing request, a fetch from an
\* upstream that serves full pages and then one short page requests the pages
\* 1, 2, 3, ... once each, as many as there are, and returns every record in
\* the order of the upstream.
C13_AllPagesInOrder ==
  ( /\ last.op \in FetchOps
    /\ last.size = page_size
    /\ last.total = last.served
    /\ last.limit = 0
    /\ last.failAt = 0
    /\ last.served \div page_size >= 1
    /\ last.served % page_size # 0
    /\ last.served < MaxPages * page_size )
  => /\ last.requested = [p \in 1..(last.served \div page_size + 1) |-> p]
     /\ ReturnedIds(last) = [k \in 1..last.served |-> k]

\* 120 offers in pages of 50, 50 and 20: three requests, 120 records
C13_Witness ==
  /\ last.op = "get_offers"
  /\ last.served = 120
  /\ last.size = page_size
  /\ last.total = 120
  /\ last.limit = 0
  /\ last.failAt = 0
  /\ last.requested = <<1, 2, 3>>
  /\ Len(last.ret) = 120
  /\ last.ret[120].offer_id = 120

\* C14: without a limit and without a failing request, a fetch from an
\* upstream that serves a full page for every page asked, and whose total is
\* never reached, stops after exactly 50 requests.
C14_StopsAtCeiling ==
  ( /\ last.op \in FetchOps
    /\ last.size = page_size
    /\ last.limit = 0
    /\ last.failAt = 0
    /\ last.served > 50 * page_size )
  => /\ last.ok
     /\ last.requested = [p \in 1..50 |-> p]

\* 2600 affiliates: pages 1..50 are requested and 2500 records come back
C14_Witness ==
  /\ last.op = "get_affiliates"
  /\ last.served = 2600
  /\ last.limit = 0
  /\ last.failAt = 0
  /\ Len(last.requested) = 50
  /\ Len(last.ret) = 2500

\* what the operation returns from an upstream that holds no records and
\* answers every request
EmptyFetch(op, limit) ==
  IF op = "get_affiliates" THEN get_affiliates(Nominal(<<>>), 0, limit)
  ELSE get_offers(Nominal(<<>>), 0, limit)

\* C15 as stated: a fetch with a failing request hands its caller a failure,
\* which differs from what a successful fetch of an empty collection returns.
C15_FailureTellsApart ==
  (last.op \in FetchOps /\ ~last.ok) => last.ret # EmptyFetch(last.op, last.limit)

(***************************************************************************)
(* The EverflowAPIValidator.  A path is kept as its segments, what         *)
(* endpoint.split("/") gives: "/v1/networks/offers" is                     *)
(* <<"", "v1", "networks", "offers">>.  A dict is kept as the sequence of  *)
(* its items in insertion order.  A message of a ValidationResult is kept  *)
(* as a record of its kind and of the values its text is formatted from.   *)
(***************************************************************************)
EntityPath == <<"", "v1", "networks", "reporting", "entity">>
EntityExportPath == <<"", "v1", "networks", "reporting", "entity", "table", "export">>
ConversionsPath == <<"", "v1", "networks", "reporting", "conversions">>
AffiliatesPath == <<"", "v1", "networks", "affiliates">>
OffersPath == <<"", "v1", "networks", "offers">>
ConversionsExportPath == <<"", "v1", "networks", "reporting", "conversions", "export">>

\* no alternative: Optional[str] = None
NoPath == <<>>

\* an EndpointSpec; description and response_fields take no part in a validation
EndpointSpec(path, method, required_params, optional_params, param_types) ==
  [path |-> path, method |-> method, required_params |-> required_params,
   optional_params |-> optional_params, param_types |-> param_types,
   deprecated |-> FALSE, alternative |-> NoPath]

\* an item of param_types
Typed(param, type) == [param |-> param, type |-> type]

\* the table _load_default_specs stores
DefaultSpecs ==
  << EndpointSpec(EntityPath, "POST",
                  <<"columns", "from", "to", "timezone_id">>,
                  <<"query", "currency_id", "page", "page_size">>,
                  <<Typed("columns", "array"), Typed("from", "string"),
                    Typed("to", "string"), Typed("timezone_id", "integer"),
                    Typed("currency_id", "string"), Typed("page", "integer"),
                    Typed("page_size", "integer")>>),
     EndpointSpec(EntityExportPath, "POST",
                  <<"columns", "from", "to", "timezone_id">>,
                  <<"query", "currency_id", "format">>,
                  <<Typed("columns", "array"), Typed("from", "string"),
                    Typed("to", "string"), Typed("timezone_id", "integer"),
                    Typed("format", "string")>>),
     EndpointSpec(ConversionsPath, "POST",
                  <<"from", "to", "timezone_id", "show_conversions">>,
                  <<"show_events", "query", "page", "page_size">>,
                  <<Typed("from", "string"), Typed("to", "string"),
                    Typed("timezone_id", "integer"), Typed("show_conversions", "boolean"),
                    Typed("show_events", "boolean"), Typed("page", "integer"),
                    Typed("page_size", "integer")>>),
     EndpointSpec(AffiliatesPath, "GET", <<>>, <<"page", "limit">>,
                  <<Typed("page", "integer"), Typed("limit", "integer")>>),
     EndpointSpec(OffersPath, "GET", <<>>, <<"page", "limit">>,
                  <<Typed("page", "integer"), Typed("limit", "integer")>>),
     EndpointSpec(ConversionsExportPath, "POST",
                  <<"from", "to", "timezone_id">>,
                  <<"query", "format", "show_conversions", "show_events">>,
                  <<Typed("from", "string"), Typed("to", "string"),
                    Typed("timezone_id", "integer"), Typed("format", "string"),
                    Typed("show_conversions", "boolean"),
                    Typed("show_events", "boolean")>>) >>

\* the validator as a value: what initialize and the validations work on
Validator(initialized, specs) == [_initialized |-> initialized, endpoint_specs |-> specs]

\* self.endpoint_specs = {...}
_load_default_specs(v) == [v EXCEPT !.endpoint_specs = DefaultSpecs]

\* a placeholder in the source: it logs and stores nothing
_parse_documentation(v, docs) == v

\* what get_library_docs does for initialize: it returns documentation
\* ("loads"), returns None ("unavailable") or raises ("raises")
Sources == {"loads", "unavailable", "raises"}

\* the outcome of initialize: the validator it leaves, what it returns, and
\* the exception that leaves it ("none": it returns)
Initialized(v, ret, exc) == [v |-> v, ret |-> ret, exc |-> exc]

\* self._initialized = True
Ready(v) == [v EXCEPT !._initialized = TRUE]

\* Variant of initialize without its except clause; C16 must not survive it.
initialize_unguarded(v, source) ==
  IF source = "raises" THEN Initialized(v, FALSE, "Exception")
  ELSE IF source = "loads" THEN Initialized(Ready(_parse_documentation(v, source)), TRUE, "none")
  ELSE Initialized(Ready(_load_default_specs(v)), TRUE, "none")

initialize(v, source) ==
  IF source = "raises" THEN Initialized(Ready(_load_default_specs(v)), FALSE, "none")
  ELSE IF source = "loads" THEN Initialized(Ready(_parse_documentation(v, source)), TRUE, "none")
  ELSE Initialized(Ready(_load_default_specs(v)), TRUE, "none")

\* "if not self._initialized: self.initialize()"
ensure_initialized(v, source) ==
  IF ~v._initialized THEN initialize(v, source) ELSE Initialized(v, TRUE, "none")

\* a message of a ValidationResult: its kind and what its text is formatted from
Msg(kind) ==
  [kind |-> kind, endpoint |-> <<>>, similar |-> <<>>, param |-> "", expected |-> "",
   got |-> "", index |-> 0]

\* f"Unknown endpoint: {endpoint}"
UnknownEndpoint(endpoint) == [Msg("Unknown endpoint") EXCEPT !.endpoint = endpoint]
\* f"Did you mean: {', '.join(similar[:3])}?"
DidYouMean(similar) == [Msg("Did you mean") EXCEPT !.similar = Cut(similar, 3)]
\* f"Method mismatch: endpoint expects {spec.method}, got {method}"
MethodMismatch(expected, got) == [Msg("Method mismatch") EXCEPT !.expected = expected, !.got = got]
\* f"Endpoint {endpoint} is deprecated"
Deprecated(endpoint) == [Msg("is deprecated") EXCEPT !.endpoint = endpoint]
\* f"Use alternative endpoint: {spec.alternative}"
UseAlternative(alternative) == [Msg("Use alternative endpoint") EXCEPT !.endpoint = alternative]
\* f"Cannot validate payload for unknown endpoint: {endpoint}"
CannotValidate(endpoint) == [Msg("Cannot validate payload for unknown endpoint") EXCEPT !.endpoint = endpoint]
\* f"Missing required parameter: {param}"
MissingRequired(param) == [Msg("Missing required parameter") EXCEPT !.param = param]
\* f"Parameter '{param}' has wrong type: expected {expected_type}, got {type(value).__name__}"
WrongType(param, expected, got) == [Msg("has wrong type") EXCEPT !.param = param, !.expected = expected, !.got = got]
\* f"Unknown parameter: {param} (may be ignored by API)"
UnknownParameter(param) == [Msg("Unknown parameter") EXCEPT !.param = param]
\* "'columns' must be an array"
MustBeArray == [Msg("must be an array") EXCEPT !.param = "columns"]
\* f"Column {i} must be an object with 'column' key, not a plain string"
ColumnFormat(i) == [Msg("must be an object with 'column' key") EXCEPT !.index = i]
\* "Use format: [{\"column\": \"offer\"}, {\"column\": \"affiliate\"}]"
UseFormat == Msg("Use format")

\* ValidationResult(valid=len(errors) == 0, errors=..., warnings=..., suggestions=...)
ValidationResult(errors, warnings, suggestions) ==
  [valid |-> Len(errors) = 0, errors |-> errors, warnings |-> warnings,
   suggestions |-> suggestions]

\* x in l
Among(x, l) == \E i \in DOMAIN l : l[i] = x

\* Variant of spec_of that takes the first specification whose path the
\* endpoint starts with; C17 must not survive it.
spec_of_prefix(specs, endpoint) ==
  LET S == {i \in DOMAIN specs :
              /\ Len(specs[i].path) <= Len(endpoint)
              /\ SubSeq(endpoint, 1, Len(specs[i].path)) = specs[i].path}
  IN  IF S = {} THEN 0 ELSE SetMin(S)

\* "endpoint in self.endpoint_specs" and self.endpoint_specs[endpoint]: the
\* place of the key in the table, 0 when the table has no such key
spec_of(specs, endpoint) ==
  LET S == {i \in DOMAIN specs : specs[i].path = endpoint}
  IN  IF S = {} THEN 0 ELSE SetMin(S)

_find_similar_endpoints(specs, endpoint) ==
  LET similar(spec) == \/ Among(endpoint[Len(endpoint)], spec.path)
                       \/ Among(spec.path[Len(spec.path)], endpoint)
      found == SelectSeq(specs, similar)
  IN  [i \in 1..Len(found) |-> found[i].path]

\* the branch of validate_endpoint for an endpoint that is no key of the table
unknown_endpoint(endpoint, similar) ==
  ValidationResult(<<UnknownEndpoint(endpoint)>>, <<>>,
                   IF similar # <<>> THEN <<DidYouMean(similar)>> ELSE <<>>)

\* the branch of validate_endpoint for a key of the table
known_endpoint(spec, endpoint, method) ==
  ValidationResult(IF spec.method # method
                     THEN <<MethodMismatch(spec.method, method)>> ELSE <<>>,
                   IF spec.deprecated THEN <<Deprecated(endpoint)>> ELSE <<>>,
                   IF spec.deprecated /\ spec.alternative # NoPath
                     THEN <<UseAlternative(spec.alternative)>> ELSE <<>>)

\* validate_endpoint after its initialization
check_endpoint(specs, endpoint, method, i) ==
  IF i = 0 THEN unknown_endpoint(endpoint, _find_similar_endpoints(specs, endpoint))
  ELSE known_endpoint(specs[i], endpoint, method)

\* a value of a payload: type(value).__name__ and, of a list, its items
Value(type) == [type |-> type, items |-> <<>>]
ListOf(items) == [type |-> "list", items |-> items]
\* an item of a list: its type and, of a dict, its keys
Item(type, keys) == [type |-> type, keys |-> keys]
\* an item of a payload
Given(param, value) == [param |-> param, value |-> value]

\* "param in payload" and payload[param]
has(payload, param) == \E i \in DOMAIN payload : payload[i].param = param
value_of(payload, param) == payload[CHOOSE i \in DOMAIN payload : payload[i].param = param].value

\* isinstance(value, type_map[expected_type]); bool is a subclass of int
_check_type(value, expected_type) ==
  IF expected_type = "string" THEN value.type = "str"
  ELSE IF expected_type = "integer" THEN value.type \in {"int", "bool"}
  ELSE IF expected_type = "boolean" THEN value.type = "bool"
  ELSE IF expected_type = "array" THEN value.type = "list"
  ELSE IF expected_type = "object" THEN value.type = "dict"
  ELSE IF expected_type = "number" THEN value.type \in {"int", "bool", "float"}
  ELSE TRUE

\* Variant of missing_required that stops at the first absent parameter; C18
\* must not survive it.
first_missing_required(spec, payload) ==
  LET absent(param) == ~has(payload, param)
      missing == SelectSeq(spec.required_params, absent)
  IN  IF missing = <<>> THEN <<>> ELSE <<MissingRequired(Head(missing))>>

\* "for param in spec.required_params: if param not in payload"
missing_required(spec, payload) ==
  LET absent(param) == ~has(payload, param)
      missing == SelectSeq(spec.required_params, absent)
  IN  [i \in 1..Len(missing) |-> MissingRequired(missing[i])]

\* "for param, expected_type in spec.param_types.items(): if param in payload"
wrong_types(spec, payload) ==
  LET wrong(item) == /\ has(payload, item.param)
                     /\ ~_check_type(value_of(payload, item.param), item.type)
      found == SelectSeq(spec.param_types, wrong)
  IN  [i \in 1..Len(found) |->
         WrongType(found[i].param, found[i].type, value_of(payload, found[i].param).type)]

\* "for param in payload.keys(): if param not in known_params"
unknown_parameters(spec, payload) ==
  LET unknown(item) == ~Among(item.param, spec.required_params \o spec.optional_params)
      found == SelectSeq(payload, unknown)
  IN  [i \in 1..Len(found) |-> UnknownParameter(found[i].param)]

\* the places (counted from 0) of the columns that are no dict with a "column" key
bad_columns(columns) ==
  LET bad(at) == ~(columns[at + 1].type = "dict" /\ "column" \in columns[at + 1].keys)
  IN  SelectSeq([i \in 1..Len(columns) |-> i - 1], bad)

\* "if "columns" in payload": the errors of the special validation
column_errors(payload) ==
  IF ~has(payload, "columns") THEN <<>>
  ELSE IF value_of(payload, "columns").type # "list" THEN <<MustBeArray>>
  ELSE LET bad == bad_columns(value_of(payload, "columns").items)
       IN  [i \in 1..Len(bad) |-> ColumnFormat(bad[i])]

\* and its suggestions, one for each such column
column_suggestions(payload) ==
  IF ~has(payload, "columns") THEN <<>>
  ELSE IF value_of(payload, "columns").type # "list" THEN <<>>
  ELSE [i \in 1..Len(bad_columns(value_of(payload, "columns").items)) |-> UseFormat]

\* validate_payload after its initialization
check_payload(specs, endpoint, payload, i) ==
  IF i = 0 THEN [ValidationResult(<<CannotValidate(endpoint)>>, <<>>, <<>>) EXCEPT !.valid = FALSE]
  ELSE ValidationResult(missing_required(specs[i], payload) \o wrong_types(specs[i], payload)
                          \o column_errors(payload),
                        unknown_parameters(specs[i], payload),
                        column_suggestions(payload))

\* what a validation leaves: the validator, the exception that left it
\* ("none": it returned), whether its checks were evaluated and whether the
\* validator was initialized by then, and what it returned
NoResult == ValidationResult(<<>>, <<>>, <<>>)
Validated(init, ret) ==
  [v |-> init.v, exc |-> init.exc, ready |-> init.v._initialized,
   checked |-> init.exc = "none",
   ret |-> IF init.exc = "none" THEN ret ELSE NoResult]

endpoint_validated(init, endpoint, method) ==
  Validated(init, check_endpoint(init.v.endpoint_specs, endpoint, method,
                                 spec_of(init.v.endpoint_specs, endpoint)))

validate_endpoint(v, source, endpoint, method) ==
  endpoint_validated(ensure_initialized(v, source), endpoint, method)

payload_validated(init, endpoint, payload) ==
  Validated(init, check_payload(init.v.endpoint_specs, endpoint, payload,
                                spec_of(init.v.endpoint_specs, endpoint)))

validate_payload(v, source, endpoint, payload) ==
  payload_validated(ensure_initialized(v, source), endpoint, payload)

(***************************************************************************)
(* The validator as a state machine: calls of initialize, validate_endpoint *)
(* and validate_payload on one instance, each with what get_library_docs   *)
(* does should the call initialize.                                        *)
(***************************************************************************)
LegacyPath == <<"", "v1", "networks", "legacy">>
RetiredPath == <<"", "v1", "networks", "retired">>
UnknownPath == <<"", "v2", "offers">>

\* the keys of the built-in table; a key with one more segment, with a
\* trailing slash, and cut by a segment; paths the built-in table does not have
Endpoints ==
  {EntityPath, EntityExportPath, ConversionsPath, AffiliatesPath, OffersPath,
   ConversionsExportPath, AffiliatesPath \o <<"7">>, AffiliatesPath \o <<"">>,
   <<"", "v1", "networks">>, UnknownPath, LegacyPath, RetiredPath}

Methods == {"GET", "POST", "DELETE"}

PayloadEndpoints ==
  {EntityPath, ConversionsPath, ConversionsExportPath, AffiliatesPath, LegacyPath, UnknownPath}

\* {"column": ...}, a plain string, a dict without the key
ColumnItem == Item("dict", {"column"})
PlainItem == Item("str", {})
OtherItem == Item("dict", {"name"})

Values ==
  {Value("str"), Value("int"), Value("bool"), Value("float"), Value("dict"),
   Value("NoneType"), ListOf(<<>>), ListOf(<<ColumnItem>>),
   ListOf(<<ColumnItem, PlainItem, OtherItem>>)}

PayloadParams ==
  {"from", "timezone_id", "page", "show_conversions", "columns", "filters", "amount", "bogus"}

\* the empty payload, the payloads of one parameter, and some of more
Payloads ==
  {<<>>} \cup {<<Given(param, value)>> : param \in PayloadParams, value \in Values}
  \cup {<<Given("to", Value("str")), Given("from", Value("str"))>>,
        <<Given("from", Value("str")), Given("to", Value("str")),
          Given("timezone_id", Value("int"))>>,
        <<Given("bogus", Value("int")), Given("timezone_id", Value("str")),
          Given("from", Value("int")), Given("format", Value("bool"))>>,
        <<Given("columns", ListOf(<<PlainItem, ColumnItem, PlainItem>>)),
          Given("from", Value("str")), Given("to", Value("str")),
          Given("timezone_id", Value("bool"))>>}

\* a call on the validator: what it leaves and what it handed back
ValidatorCalled(call, out) ==
  /\ _initialized' = out.v._initialized
  /\ endpoint_specs' = out.v.endpoint_specs
  /\ last' = [call EXCEPT !.initialized_before = _initialized,
                          !.source = IF _initialized /\ call.op # "initialize"
                                       THEN "none" ELSE call.source,
                          !.exc = out.exc, !.ret = out.ret,
                          !.checked = out.checked, !.ready = out.ready]

\* a call as it is made
Call(op, source) ==
  [op |-> op, source |-> source, endpoint |-> <<>>, method |-> "", payload |-> <<>>,
   initialized_before |-> FALSE, exc |-> "none", ret |-> NoResult,
   checked |-> FALSE, ready |-> FALSE]

\* what get_library_docs would do is of no account to a call that does not
\* initialize: such a call is taken once, under "unavailable"
Asked(source) == _initialized => source = "unavailable"

\* initialize hands back True or False, kept in returned
initialize_called(init) ==
  [v |-> init.v, exc |-> init.exc, ret |-> NoResult, checked |-> FALSE,
   ready |-> init.v._initialized, returned |-> init.ret]

Initialize(source) ==
  /\ ValidatorCalled(Call("initialize", source),
                     initialize_called(initialize(Validator(_initialized, endpoint_specs), source)))
  /\ UNCHANGED <<resolver, underway>>

ValidateEndpoint(source, endpoint, method) ==
  /\ Asked(source)
  /\ ValidatorCalled([Call("validate_endpoint", source) EXCEPT !.endpoint = endpoint, !.method = method],
                     validate_endpoint(Validator(_initialized, endpoint_specs), source, endpoint, method))
  /\ UNCHANGED <<resolver, underway>>

ValidatePayload(source, endpoint, payload) ==
  /\ Asked(source)
  /\ ValidatorCalled([Call("validate_payload", source) EXCEPT !.endpoint = endpoint, !.payload = payload],
                     validate_payload(Validator(_initialized, endpoint_specs), source, endpoint, payload))
  /\ UNCHANGED <<resolver, underway>>

NextValidator ==
  \/ \E source \in Sources : Initialize(source)
  \/ \E source \in Sources, endpoint \in Endpoints, method \in Methods :
        ValidateEndpoint(source, endpoint, method)
  \/ \E source \in Sources, endpoint \in PayloadEndpoints, payload \in Payloads :
        ValidatePayload(source, endpoint, payload)

SpecValidator == Init /\ [][NextValidator]_vars

(***************************************************************************)
(* validate_endpoint and validate_payload as functions of the table they   *)
(* read.  The built-in table declares no deprecated endpoint and no object *)
(* or number parameter, and _parse_documentation stores none, so the table *)
(* is drawn here from tables of EndpointSpec values that have them too.     *)
(***************************************************************************)
\* EndpointSpec(..., deprecated=True, alternative="/v1/networks/affiliates")
LegacySpec ==
  [EndpointSpec(LegacyPath, "GET", <<"filters">>, <<"amount">>,
                <<Typed("filters", "object"), Typed("amount", "number")>>)
     EXCEPT !.deprecated = TRUE, !.alternative = AffiliatesPath]

\* EndpointSpec(..., deprecated=True)
RetiredSpec ==
  [EndpointSpec(RetiredPath, "POST", <<>>, <<>>, <<>>) EXCEPT !.deprecated = TRUE]

Tables == {<<>>, DefaultSpecs, DefaultSpecs \o <<LegacySpec, RetiredSpec>>}

InitTables ==
  /\ paging = NoFetch
  /\ inflight = NoRequests
  /\ _initialized = TRUE
  /\ endpoint_specs \in Tables
  /\ _affiliate_cache = EmptyMap
  /\ _offer_cache = EmptyMap
  /\ _country_cache = EmptyMap
  /\ upstream = Upstreams[1]
  /\ last = [op |-> "none"]
  /\ calls = 0
  /\ fetch_count = EmptyMap

NextTables ==
  \/ \E endpoint \in Endpoints, method \in Methods :
        ValidateEndpoint("unavailable", endpoint, method)
  \/ \E endpoint \in PayloadEndpoints, payload \in Payloads :
        ValidatePayload("unavailable", endpoint, payload)

SpecTables == InitTables /\ [][NextTables]_vars

(***************************************************************************)
(* Properties of the validator.                                            *)
(***************************************************************************)
Validations == {"validate_endpoint", "validate_payload"}

\* the places of the table whose key is the endpoint of the last call
Keyed == {i \in DOMAIN endpoint_specs : endpoint_specs[i].path = last.endpoint}

\* the parameter is in the payload of the last call
InPayload(param) == \E k \in DOMAIN last.payload : last.payload[k].param = param

\* how many errors of the last result are this message
Reported(message) == Cardinality({e \in DOMAIN last.ret.errors : last.ret.errors[e] = message})

\* the type errors of the last result about the parameter
TypeErrors(param) ==
  {e \in DOMAIN last.ret.errors :
     last.ret.errors[e].kind = "has wrong type" /\ last.ret.errors[e].param = param}

\* C16: an instance that is initialized stays initialized; initialize hands no
\* exception to its caller and leaves the instance initialized whether the
\* documentation loads, is unavailable or raises; and a validation evaluates
\* its checks on an initialized instance, initializing it first if need be.
C16_ReadyForGood ==
  /\ [](last.op = "initialize" => (last.exc = "none" /\ _initialized))
  /\ [](last.op \in Validations
          => (last.exc = "none" /\ last.checked /\ last.ready /\ _initialized))
  /\ [][_initialized => _initialized']_vars

\* a validation of a fresh instance whose documentation source raised
C16_Witness ==
  /\ last.op = "validate_endpoint"
  /\ ~last.initialized_before
  /\ last.source = "raises"
  /\ last.checked
  /\ _initialized
  /\ last.ret.valid

\* C17: validate_endpoint is valid exactly when the endpoint is a key of the
\* table and the method is the one that specification declares; a deprecated
\* specification adds one warning, and a suggestion of its alternative when it
\* has one, and the result stays valid when the method matches.
C17_ExactPathAndMethod ==
  last.op = "validate_endpoint"
    => /\ last.ret.valid <=> \E i \in Keyed : endpoint_specs[i].method = last.method
       /\ \A i \in Keyed :
             endpoint_specs[i].deprecated
               => /\ last.ret.warnings = <<Deprecated(last.endpoint)>>
                  /\ endpoint_specs[i].alternative # NoPath
                       => last.ret.suggestions = <<UseAlternative(endpoint_specs[i].alternative)>>
                  /\ last.ret.valid <=> endpoint_specs[i].method = last.method

\* a deprecated endpoint with an alternative, asked for with its method
C17_Witness ==
  /\ last.op = "validate_endpoint"
  /\ last.endpoint = LegacyPath
  /\ last.method = "GET"
  /\ last.ret.valid
  /\ last.ret.warnings # <<>>
  /\ last.ret.suggestions = <<UseAlternative(AffiliatesPath)>>

\* C18: for a known endpoint validate_payload reports one missing-parameter
\* error for each required parameter the payload lacks, none for a parameter
\* it has, and no type error for a parameter it lacks.
C18_OneErrorPerMissing ==
  (last.op = "validate_payload" /\ Keyed # {})
    => \A i \in Keyed :
         \A param \in PayloadParams \cup {endpoint_specs[i].required_params[k] :
                                           k \in DOMAIN endpoint_specs[i].required_params} :
            /\ Reported(MissingRequired(param)) =
                 IF Among(param, endpoint_specs[i].required_params) /\ ~InPayload(param)
                   THEN 1 ELSE 0
            /\ ~InPayload(param) => TypeErrors(param) = {}

\* required from, to and timezone_id with a payload of from alone: two
\* missing-parameter errors, no type error
C18_Witness ==
  /\ last.op = "validate_payload"
  /\ last.endpoint = ConversionsExportPath
  /\ last.payload = <<Given("from", Value("str"))>>
  /\ last.ret.errors = <<MissingRequired("to"), MissingRequired("timezone_id")>>
  /\ ~last.ret.valid

\* the runtime types that are the declared type
TypesOf(declared) ==
  IF declared = "string" THEN {"str"}
  ELSE IF declared = "integer" THEN {"int"}
  ELSE IF declared = "boolean" THEN {"bool"}
  ELSE IF declared = "array" THEN {"list"}
  ELSE IF declared = "object" THEN {"dict"}
  ELSE {"int", "float"}

\* C19 as stated: for a known endpoint and a parameter of the payload with a
\* declared type, the result is invalid with a type error for the parameter
\* when the type of its value is not the declared one, and has no type error
\* for it when it is.
C19_TypeErrorOnMismatch ==
  (last.op = "validate_payload" /\ Keyed # {})
    => \A i \in Keyed, k \in DOMAIN last.payload :
         \A j \in DOMAIN endpoint_specs[i].param_types :
            endpoint_specs[i].param_types[j].param = last.payload[k].param
              => IF last.payload[k].value.type \in TypesOf(endpoint_specs[i].param_types[j].type)
                   THEN TypeErrors(last.payload[k].param) = {}
                   ELSE TypeErrors(last.payload[k].param) # {} /\ ~last.ret.valid

\* C20 as stated: with return_suggestions=True every resolve operation hands
\* back a pair of an identifier or None and a list, for an integer too, so
\* that a caller can unpack it.
C20_PairInSuggestionsMode ==
  (last.op \in SingleOps /\ last.return_suggestions)
    => (last.ret.exc = "none" /\ last.ret.shape = "pair")

(***************************************************************************)
(* Properties of the paginated fetches.                                    *)
(***************************************************************************)
\* C21 as stated: without a limit and without a failing request, a fetch from
\* an upstream whose records fit in 50 of its pages returns every record,
\* whatever the size of its pages and whatever total_count it reports.
C21_EveryRecordReturned ==
  ( /\ last.op \in FetchOps
    /\ ~last.supplied
    /\ last.failAt = 0
    /\ last.served <= MaxPages * last.size )
  => ReturnedIds(last) = [k \in 1..last.served |-> k]

\* the number of records an upstream of last's kind hands over in its first k pages
ServedBy(k) == IF k * last.size < last.served THEN k * last.size ELSE last.served

\* C22 as stated: a fetch with a limit L supplied, L >= 0, returns at most L
\* records, and requests no page once the pages before it have given L records.
C22_LimitObserved ==
  (last.op \in FetchOps /\ last.supplied /\ last.ok)
    => /\ Len(last.ret) <= last.limit
       /\ \A k \in 1..(Len(last.requested) - 1) : ServedBy(k) < last.limit

(***************************************************************************)
(* The page loops of the client, one turn at a time, against an upstream   *)
(* that answers each request as it likes.  paging is the loop under way:   *)
(* the operation, its limit (0: None or 0), the page it asks for next, the *)
(* number of records collected (len(all_...)) and the number of requests   *)
(* made.  A response is what the loop reads of it: how many rows it has    *)
(* (none, fewer than the page size of the loop, or that many), whether the *)
(* loop appends them (they have an id that was not seen) or none of them,  *)
(* paging.total_count (absent, the number collected, or more) and, for the *)
(* report endpoints, paging.total_pages (absent, the page asked for, or    *)
(* more); or the request raises.                                           *)
(***************************************************************************)
ListOps == {"get_affiliates", "get_offers"}
ReportOps == {"get_landing_pages", "get_countries"}

\* page_size of the loop of an operation
PageSizeOf(op) == IF op \in ListOps THEN page_size ELSE report_page_size

\* the requests of one fetch the model follows
MaxRequests == 52

Responses ==
  [raises : {FALSE}, rows : {"none", "short", "full"}, fresh : BOOLEAN,
   total : {"none", "reached", "beyond"}, pages : {"none", "here", "beyond"}]
  \cup {[raises |-> TRUE, rows |-> "none", fresh |-> FALSE, total |-> "none", pages |-> "none"]}

\* len(data) / len(table)
RowsOf(op, response) ==
  IF response.rows = "none" THEN 0
  ELSE IF response.rows = "short" THEN PageSizeOf(op) - 1
  ELSE PageSizeOf(op)

\* the for-loop over the rows: how many records it appends.  It appends the
\* rows with a new id, and behind an append it breaks "if limit and
\* len(all) >= limit".
Appended(f, response) ==
  LET fresh == IF response.fresh THEN RowsOf(f.op, response) ELSE 0
      room  == IF f.limit - f.collected < 1 THEN 1 ELSE f.limit - f.collected
  IN  IF f.limit = 0 \/ fresh < room THEN fresh ELSE room

\* paging.get("total_count", 0)
TotalCountOf(response, all) ==
  IF response.total = "none" THEN 0
  ELSE IF response.total = "reached" THEN all
  ELSE all + 1

\* paging.get("total_pages", 1)
TotalPagesOf(response, page) ==
  IF response.pages = "none" THEN 1
  ELSE IF response.pages = "here" THEN page
  ELSE page + 1

\* break: the loop is left and the operation returns
Leave(f) == [f EXCEPT !.status = "returned"]

\* the break tests of get_affiliates / get_offers behind the for-loop
list_turn(f, rows, total_count) ==
  IF f.limit # 0 /\ f.collected >= f.limit THEN Leave(f)
  ELSE IF total_count > 0 /\ f.collected >= total_count THEN Leave(f)
  ELSE IF rows < page_size THEN Leave(f)
  ELSE IF total_count > 0 /\ total_count - f.collected <= 0 THEN Leave(f)
  ELSE IF f.page + 1 > MaxPages THEN Leave([f EXCEPT !.page = @ + 1])
  ELSE [f EXCEPT !.page = @ + 1]

\* the break tests of get_landing_pages / get_countries behind the for-loop;
\* current_page is the page asked for
report_turn(f, rows, total_count, total_pages) ==
  IF f.limit # 0 /\ f.collected >= f.limit THEN Leave(f)
  ELSE IF total_count > 0 /\ f.collected >= total_count THEN Leave(f)
  ELSE IF f.page >= total_pages \/ rows < report_page_size THEN Leave(f)
  ELSE [f EXCEPT !.page = @ + 1]

\* the loop behind the for-loop of a page with rows
after_rows(f, response) ==
  IF f.op \in ListOps
    THEN list_turn(f, RowsOf(f.op, response), TotalCountOf(response, f.collected))
    ELSE report_turn(f, RowsOf(f.op, response), TotalCountOf(response, f.collected),
                     TotalPagesOf(response, f.page))

\* the request of a turn is made
Requested(f) == [f EXCEPT !.requested = @ + 1]

\* one turn of "while True": the request, "if not data: break", the for-loop
\* and the break tests; a request that raises ends the operation in its
\* except clause
page_turn(f, response) ==
  IF response.raises THEN [Requested(f) EXCEPT !.status = "failed"]
  ELSE IF RowsOf(f.op, response) = 0 THEN Leave(Requested(f))
  ELSE after_rows([Requested(f) EXCEPT !.collected = @ + Appended(f, response)], response)

\* what the operation hands back once its loop is left: all[:limit] or all,
\* and [] from the except clause
ReturnedCount(f) ==
  IF f.status = "failed" THEN 0
  ELSE IF f.limit # 0 /\ f.limit < f.collected THEN f.limit
  ELSE f.collected

PagingLimits == {0, 30, 120}

\* a fetch is called: all = [], page = 1
StartFetch(op, limit) ==
  /\ paging.status # "running"
  /\ paging' = [op |-> op, status |-> "running", limit |-> limit, page |-> 1,
                collected |-> 0, requested |-> 0]
  /\ UNCHANGED <<resolver, validator, last, inflight>>

\* a turn of the loop of get_affiliates / get_offers
ListPage(response) ==
  /\ paging.status = "running"
  /\ paging.op \in ListOps
  /\ paging.requested < MaxRequests
  /\ paging' = page_turn(paging, response)
  /\ UNCHANGED <<resolver, validator, last, inflight>>

\* a turn of the loop of get_landing_pages / get_countries
ReportPage(response) ==
  /\ paging.status = "running"
  /\ paging.op \in ReportOps
  /\ paging.requested < MaxRequests
  /\ paging' = page_turn(paging, response)
  /\ UNCHANGED <<resolver, validator, last, inflight>>

NextPaging ==
  \/ \E op \in ListOps \cup ReportOps, limit \in PagingLimits : StartFetch(op, limit)
  \/ \E response \in Responses : ListPage(response)
  \/ \E response \in Responses : ReportPage(response)

SpecPaging == Init /\ [][NextPaging]_vars

\* C23 as stated: a fetch of the client makes at most 50 page requests,
\* whatever the upstream answers.
C23_AtMostFiftyRequests == paging.requested <= 50

(***************************************************************************)
(* resolve_offer over catalogues that hold, in any order, offers the term  *)
(* "foo bar" hits on different rungs of the ladder.                        *)
(***************************************************************************)
LadderOffers ==
  {[id |-> 31, hasName |-> TRUE, name |-> <<"F","o","o"," ","B","a","r">>],
   [id |-> 32, hasName |-> TRUE, name |-> <<"f","o","o"," "," ","b","a","r">>],
   [id |-> 33, hasName |-> TRUE, name |-> <<"f","o","o"," ","b","a","r"," ","b","a","z">>],
   [id |-> 34, hasName |-> TRUE, name |-> <<"b","a","r"," ","x"," ","f","o","o">>],
   [id |-> 35, hasName |-> TRUE, name |-> <<"f","o","o"," ","q","u","x">>],
   [id |-> 36, hasName |-> TRUE, name |-> <<"f","o","p"," ","b","a","r">>]}

\* an offer whose name holds a run of six spaces, and a term like it
SpacedOffer == [id |-> 37, hasName |-> TRUE, name |-> <<"a"," "," "," "," "," "," ","c">>]
SpacedTerm == StrV(<<"a"," "," "," "," "," "," ","b">>)

\* the catalogues: one, two or three of the offers in some order, and the
\* offer with the spaces alone
LadderCatalogues ==
  {<<a>> : a \in LadderOffers}
  \cup {s \in LadderOffers \X LadderOffers : s[1] # s[2]}
  \cup {s \in LadderOffers \X LadderOffers \X LadderOffers :
          s[1].id = 33 /\ s[2] # s[1] /\ s[3].id \in {31, 36} /\ s[3] # s[2]}
  \cup {<<SpacedOffer>>}

LadderValues ==
  {StrV(<<"f","o","o"," ","b","a","r">>), StrV(<<" ","F","o","o"," ","b","a","r">>),
   SpacedTerm}

InitLadder ==
  /\ paging = NoFetch
  /\ inflight = NoRequests
  /\ _initialized = FALSE
  /\ endpoint_specs = <<>>
  /\ _affiliate_cache = EmptyMap
  /\ _offer_cache = EmptyMap
  /\ _country_cache = EmptyMap
  /\ upstream \in {[affiliates |-> <<>>, offers |-> c, countries |-> <<>>, fail |-> 0] :
                     c \in LadderCatalogues}
  /\ last = [op |-> "none"]
  /\ calls = 0
  /\ fetch_count = EmptyMap

NextLadder ==
  \E v \in LadderValues, rs \in BOOLEAN : ResolveOffer(v, rs)

SpecLadder == InitLadder /\ [][NextLadder]_vars

\* the words of more than two characters
LongWords(text) == SelectSeq(Split(text), LongWord)

\* the highest rung of the ladder on which a name answers a term: 1 equal
\* after trimming and case-folding, 2 equal in canonical form, 3 one contains
\* the other, 4 every long word of the term occurs in the name, 5 the first
\* long words agree, 6 none
RungRank(term, name) ==
  LET t == Lower(Strip(term))
      n == Lower(Strip(name))
      tw == LongWords(Canon(term))
      nw == LongWords(Canon(name))
  IN  IF n = t THEN 1
      ELSE IF Canon(name) = Canon(term) THEN 2
      ELSE IF Contains(Canon(term), Canon(name)) \/ Contains(Canon(name), Canon(term)) THEN 3
      ELSE IF tw # <<>> /\ \A w \in 1..Len(tw) : Contains(tw[w], Canon(name)) THEN 4
      ELSE IF tw # <<>> /\ nw # <<>> /\ tw[1] = nw[1] THEN 5
      ELSE 6

\* the highest rung on which an offer of the collection answers the term
OfferRank(term, offer) ==
  SetMin({RungRank(term, NamesOf("offer", offer)[j]) : j \in 1..Len(NamesOf("offer", offer))}
         \cup {6})

\* C24 as stated: a resolve_offer that went to the collection, where some
\* offer answers the term on a rung of the ladder, returns an offer that
\* answers it on the highest rung any offer of the collection does: an offer
\* named exactly like the term wins over an earlier offer that only contains
\* the term.
C24_HighestRungWins ==
  ( /\ last.op = "resolve_offer"
    /\ last.value.t = "str"
    /\ last.fetched = 1 )
  => LET coll == Coll("offer", last.fetched_from)
         offers == {i \in 1..Len(coll) : coll[i].offer_id # 0}
         top == SetMin({OfferRank(last.value.s, coll[i]) : i \in offers} \cup {6})
     IN  top < 6
           => \E i \in offers : /\ OfferRank(last.value.s, coll[i]) = top
                                /\ last.ret.id = IdOf("offer", coll[i])

(***************************************************************************)
(* _find_similar_entities on its own: entities with two name fields, given *)
(* to it with name_fields = ["name", "alias"], min_similarity = 0.5 and    *)
(* max_results = 5.                                                        *)
(***************************************************************************)
Entity(id, name, alias) == [id |-> id, names |-> <<name, alias>>]

SuggestEntities ==
  {Entity(41, <<"a","b","x","x">>, <<"a","b","c","d">>),
   Entity(42, <<"A","b","c","d">>, <<>>),
   Entity(43, <<"w","x","y","z">>, <<"a","b","c","d">>),
   Entity(44, <<"w","x","y","z">>, <<>>),
   Entity(45, <<"a","b","c","x">>, <<"a","b","x","x">>),
   Entity(46, <<"a","b","c","e">>, <<>>)}

\* one or two of the entities in some order, and six that all reach the floor
SuggestLists ==
  {<<a>> : a \in SuggestEntities}
  \cup {s \in SuggestEntities \X SuggestEntities : s[1] # s[2]}
  \cup {<<Entity(46, <<"a","b","c","e">>, <<>>), Entity(47, <<"a","b","c","f">>, <<>>),
          Entity(48, <<"a","b","c","g">>, <<>>), Entity(49, <<"a","b","c","h">>, <<>>),
          Entity(50, <<"a","b","c","i">>, <<>>), Entity(42, <<"A","b","c","d">>, <<>>)>>}

SuggestTerms == {<<"a","b","c","d">>, <<" ","A","B","C","D">>, <<"a","b","x","x">>}

\* a call of _find_similar_entities
FindSimilar(search_term, entities) ==
  /\ last' = [op |-> "_find_similar_entities", search_term |-> search_term,
              entities |-> entities,
              ret |-> _find_similar_entities(search_term, entities,
                                             [i \in 1..Len(entities) |-> entities[i].names],
                                             MinSimilarity, MaxResults)]
  /\ UNCHANGED <<resolver, validator, underway>>

NextSuggest ==
  \E search_term \in SuggestTerms, entities \in SuggestLists : FindSimilar(search_term, entities)

SpecSuggest == Init /\ [][NextSuggest]_vars

\* the similarities of a term to the names of an entity
SimilaritiesOf(search_term, e) ==
  {_calculate_similarity(Lower(Strip(search_term)), Lower(Strip(Named(e.names)[j]))) :
     j \in 1..Len(Named(e.names))}

\* the largest of them, 0 for an entity without a name
MaxSimilarityOf(search_term, e) ==
  LET S == SimilaritiesOf(search_term, e) \cup {Zero}
  IN  CHOOSE s \in S : \A t \in S : SimGE(s, t)

method_upper(method) ==
  IF method = "get" THEN "GET" ELSE IF method = "post" THEN "POST" ELSE method

\* known in endpoint
Within(known, endpoint) ==
  \E k \in 0..(Len(endpoint) - Len(known)) :
    \A i \in 2..Len(known) : endpoint[k + i] = known[i]

\* any(ep in endpoint for ep in ["/v1/networks/affiliates", "/v1/networks/offers"])
is_entity_endpoint(endpoint) ==
  Within(AffiliatesPath, endpoint) \/ Within(OffersPath, endpoint)

\* any(ep in endpoint for ep in [the four reporting paths])
is_reporting_endpoint(endpoint) ==
  \/ Within(EntityPath, endpoint)
  \/ Within(EntityExportPath, endpoint)
  \/ Within(ConversionsPath, endpoint)
  \/ Within(ConversionsExportPath, endpoint)

\* _validate_request behind validate_endpoint: e is what validate_endpoint
\* left
request_validated(e, source, method, endpoint, data) ==
  IF ~e.ret.valid
    THEN IF method_upper(method) = "GET" /\ is_entity_endpoint(endpoint)
           THEN [e EXCEPT !.ret = ValidationResult(<<>>, e.ret.errors, e.ret.suggestions)]
         ELSE e
  ELSE IF data # <<>>
    THEN LET p == validate_payload(e.v, source, endpoint, data)
         IN  IF ~p.ret.valid THEN p
             ELSE [p EXCEPT !.ret = ValidationResult(e.ret.errors \o p.ret.errors,
                                                     e.ret.warnings \o p.ret.warnings,
                                                     e.ret.suggestions \o p.ret.suggestions)]
  ELSE e

_validate_request(v, source, method, endpoint, data) ==
  request_validated(validate_endpoint(v, source, endpoint, method), source, method,
                    endpoint, data)

\* what a call of _request leaves: the validator, the exception that left it
\* ("none": it returned the response), the errors and suggestions of a
\* ValueError, and the HTTP calls it made
RequestOutcome(v, exc, errors, suggestions, sent) ==
  [v |-> v, exc |-> exc, errors |-> errors, suggestions |-> suggestions, sent |-> sent]

\* requests.get for GET, requests.post for every other method; the upstream
\* accepts the call or refuses it (raise_for_status raises)
dispatch(v, method, endpoint, answer) ==
  RequestOutcome(v, IF answer = "accepts" THEN "none" ELSE "Exception", <<>>, <<>>,
             <<[verb |-> IF method_upper(method) = "GET" THEN "GET" ELSE "POST",
                endpoint |-> endpoint]>>)

\* Variant of request_after_validation that sends every request; C26 must
\* not survive it.
request_unchecked(validation, method, endpoint, answer) ==
  dispatch(validation.v, method, endpoint, answer)

\* _request behind "validation = self._validate_request(...)"
request_after_validation(validation, method, endpoint, answer) ==
  IF /\ ~validation.ret.valid
     /\ ~ \/ method_upper(method) = "GET" /\ is_entity_endpoint(endpoint)
          \/ method_upper(method) = "POST" /\ is_reporting_endpoint(endpoint)
    THEN RequestOutcome(validation.v, "ValueError", validation.ret.errors,
                    validation.ret.suggestions, <<>>)
  ELSE dispatch(validation.v, method, endpoint, answer)

_request(v, source, method, endpoint, data, answer) ==
  request_after_validation(_validate_request(v, source, method, endpoint, data),
                           method, endpoint, answer)

\* the candidates of update_conversion_status for conversion "c1", a path
\* under the list of affiliates, the list of offers behind a prefix, a path
\* under a report
StatusPath == <<"", "v1", "networks", "conversions", "c1", "status">>
ConversionPath == <<"", "v1", "networks", "conversions", "c1">>
BulkStatusPath == <<"", "v1", "networks", "conversions", "bulk-status">>

RequestEndpoints ==
  {AffiliatesPath, OffersPath, EntityPath, ConversionsPath, EntityExportPath,
   AffiliatesPath \o <<"7">>, <<"", "api">> \o Tail(OffersPath), ConversionsPath \o <<"9">>,
   StatusPath, ConversionPath, BulkStatusPath, UnknownPath}

RequestMethods == {"GET", "POST", "PUT", "get"}

RequestPayloads ==
  {<<>>, <<Given("status", Value("str"))>>,
   <<Given("from", Value("str")), Given("to", Value("str")),
     Given("timezone_id", Value("int"))>>}

Answers == {"accepts", "refuses"}

\* a call of _request
Request(source, method, endpoint, data, answer) ==
  /\ Asked(source)
  /\ LET out == _request(Validator(_initialized, endpoint_specs), source, method, endpoint,
                         data, answer)
     IN  /\ _initialized' = out.v._initialized
         /\ endpoint_specs' = out.v.endpoint_specs
         /\ last' = [op |-> "_request", method |-> method, endpoint |-> endpoint,
                     data |-> data, answer |-> answer, exc |-> out.exc,
                     errors |-> out.errors, suggestions |-> out.suggestions,
                     sent |-> out.sent]
  /\ UNCHANGED <<resolver, underway>>

(***************************************************************************)
(* EverflowClient.update_conversion_status for conversion "c1".  The       *)
(* upstream is the set of endpoints on which it would accept the update.   *)
(***************************************************************************)
ConversionId == <<"c","1">>

\* f"update conversion {conversion_id} status {status}"
Operation(conversion_id, status) ==
  <<"u","p","d","a","t","e"," ","c","o","n","v","e","r","s","i","o","n"," ">>
  \o conversion_id \o <<" ","s","t","a","t","u","s"," ">> \o status

\* get_endpoint_suggestion behind its initialization: NoPath for None
get_endpoint_suggestion(operation) ==
  LET operation_lower == Lower(operation)
      in(word) == Contains(word, operation_lower)
  IN  IF in(<<"a","f","f","i","l","i","a","t","e">>) /\ in(<<"l","i","s","t">>)
        THEN AffiliatesPath
      ELSE IF in(<<"o","f","f","e","r">>) /\ in(<<"l","i","s","t">>) THEN OffersPath
      ELSE IF in(<<"e","x","p","o","r","t">>) \/ in(<<"c","s","v">>) THEN EntityExportPath
      ELSE IF in(<<"c","o","n","v","e","r","s","i","o","n">>) /\ in(<<"v","i","e","w">>)
        THEN ConversionsPath
      ELSE IF in(<<"r","e","p","o","r","t">>) \/ in(<<"e","n","t","i","t","y">>)
        THEN EntityPath
      ELSE NoPath

\* endpoints_to_try, the suggestion in front when there is one
endpoints_to_try(suggestion) ==
  (IF suggestion # NoPath THEN <<suggestion>> ELSE <<>>)
  \o <<StatusPath, ConversionPath, BulkStatusPath>>

\* "PUT" when the endpoint validates with it, else "POST" when it validates
\* with that, else "PUT"
method_for(specs, endpoint) ==
  IF check_endpoint(specs, endpoint, "PUT", spec_of(specs, endpoint)).valid THEN "PUT"
  ELSE IF check_endpoint(specs, endpoint, "POST", spec_of(specs, endpoint)).valid THEN "POST"
  ELSE "PUT"

StatusPayload == <<Given("status", Value("str"))>>

\* what update_conversion_status leaves: the exception that left it, the
\* endpoint whose response it returned (NoPath: none), the HTTP calls made
Updated(exc, via, sent) == [exc |-> exc, via |-> via, sent |-> sent]

\* the loop "for endpoint in endpoints_to_try" from candidate i on, v an
\* initialized validator
RECURSIVE try_endpoints(_, _, _, _, _)
try_endpoints(v, endpoints, accepted, i, sent) ==
  IF i > Len(endpoints) THEN Updated("Exception", NoPath, sent)
  ELSE LET out == _request(v, "unavailable", method_for(v.endpoint_specs, endpoints[i]),
                           endpoints[i], StatusPayload,
                           IF endpoints[i] \in accepted THEN "accepts" ELSE "refuses")
       IN  IF out.exc = "none" THEN Updated("none", endpoints[i], sent \o out.sent)
           ELSE try_endpoints(v, endpoints, accepted, i + 1, sent \o out.sent)

\* validator = get_validator(): the instance, initialized when it is made
get_validator(v, source) == ensure_initialized(v, source).v

update_conversion_status(v, source, status, accepted) ==
  try_endpoints(get_validator(v, source),
                endpoints_to_try(get_endpoint_suggestion(Operation(ConversionId, status))),
                accepted, 1, <<>>)

Statuses ==
  {<<"a","p","p","r","o","v","e","d">>, <<"r","e","j","e","c","t","e","d">>,
   <<"R","e","v","i","e","w","e","d">>}

\* what the upstream would accept the update on
Accepting == SUBSET {StatusPath, ConversionPath, BulkStatusPath, ConversionsPath}

\* a call of update_conversion_status
UpdateConversionStatus(source, status, accepted) ==
  /\ Asked(source)
  /\ LET v == get_validator(Validator(_initialized, endpoint_specs), source)
         out == update_conversion_status(Validator(_initialized, endpoint_specs), source,
                                         status, accepted)
     IN  /\ _initialized' = v._initialized
         /\ endpoint_specs' = v.endpoint_specs
         /\ last' = [op |-> "update_conversion_status", status |-> status,
                     accepted |-> accepted,
                     tried |-> endpoints_to_try(get_endpoint_suggestion(
                                                  Operation(ConversionId, status))),
                     exc |-> out.exc, via |-> out.via, sent |-> out.sent]
  /\ UNCHANGED <<resolver, underway>>

NextClient ==
  \/ \E source \in Sources, method \in RequestMethods, endpoint \in RequestEndpoints,
        data \in RequestPayloads, answer \in Answers :
        Request(source, method, endpoint, data, answer)
  \/ \E source \in Sources, status \in Statuses, accepted \in Accepting :
        UpdateConversionStatus(source, status, accepted)

SpecClient == Init /\ [][NextClient]_vars

(***************************************************************************)
(* Properties of the client.                                               *)
(***************************************************************************)
\* the validation of the endpoint and of the payload of the last request,
\* against the table the validator has
EndpointChecked ==
  check_endpoint(endpoint_specs, last.endpoint, last.method,
                 spec_of(endpoint_specs, last.endpoint))

PayloadChecked ==
  check_payload(endpoint_specs, last.endpoint, last.data,
                spec_of(endpoint_specs, last.endpoint))

\* the validation of the request passed
RequestPassed ==
  EndpointChecked.valid /\ (last.data = <<>> \/ PayloadChecked.valid)

\* the validation that failed
RequestFailure == IF ~EndpointChecked.valid THEN EndpointChecked ELSE PayloadChecked

\* the request is a GET on the list of affiliates or of offers, or a POST on
\* one of the four reporting endpoints
OnLenientEndpoint ==
  \/ /\ method_upper(last.method) = "GET"
     /\ last.endpoint \in {AffiliatesPath, OffersPath}
  \/ /\ method_upper(last.method) = "POST"
     /\ last.endpoint \in {EntityPath, EntityExportPath, ConversionsPath, ConversionsExportPath}

\* the request is a GET whose path holds the path of the list of affiliates
\* or of offers, or a POST whose path holds the path of a reporting endpoint
HoldsLenientEndpoint ==
  \/ /\ method_upper(last.method) = "GET"
     /\ \E known \in {AffiliatesPath, OffersPath} : Within(known, last.endpoint)
  \/ /\ method_upper(last.method) = "POST"
     /\ \E known \in {EntityPath, ConversionsPath} : Within(known, last.endpoint)

\* a request is sent upstream only if its validation passed or it is
\* lenient; a request that is neither raises a ValueError with the errors and
\* suggestions of the failed validation and nothing is sent
Gate(lenient) ==
  /\ last.sent # <<>> => (RequestPassed \/ lenient)
  /\ (~RequestPassed /\ ~lenient)
       => /\ last.exc = "ValueError"
          /\ last.sent = <<>>
          /\ last.errors = RequestFailure.errors
          /\ last.errors # <<>>
          /\ last.suggestions = RequestFailure.suggestions

\* C26 as stated: _request sends a request upstream only if its validation
\* passed, or it is a GET on the affiliates or offers list endpoint, or a POST
\* on a reporting endpoint; any other request whose validation fails raises
\* the validation error before anything is sent.
C26_LenientOnListAndReports ==
  last.op = "_request" => Gate(OnLenientEndpoint)

\* C26, amended: the lenient requests are the GETs whose path holds the path
\* of the affiliates or offers list and the POSTs whose path holds the path of
\* a reporting endpoint; _request sends a request upstream only if its
\* validation passed or it is lenient in this sense, and any other request
\* whose validation fails raises a ValueError with the errors and suggestions
\* of the validation before anything is sent.
C26_LenientByContainment ==
  last.op = "_request" => Gate(HoldsLenientEndpoint)

\* PUT /v1/networks/conversions/bulk-status against the built-in table: an
\* unknown endpoint, one error, a "did you mean", nothing sent
C26_Witness ==
  /\ last.op = "_request"
  /\ last.method = "PUT"
  /\ last.endpoint = BulkStatusPath
  /\ endpoint_specs = DefaultSpecs
  /\ ~RequestPassed
  /\ last.exc = "ValueError"
  /\ Len(last.errors) = 1
  /\ last.suggestions # <<>>
  /\ last.sent = <<>>

\* C27 as stated: when the upstream would accept the update on one of the
\* candidate endpoints, update_conversion_status sends a request to the
\* candidates in list order up to the first it accepts and returns that
\* response; it raises only when every candidate was refused.
C27_FirstAcceptedCandidate ==
  last.op = "update_conversion_status"
    => LET A == {i \in 1..Len(last.tried) : last.tried[i] \in last.accepted}
       IN  IF A = {} THEN last.exc = "Exception"
           ELSE /\ last.exc = "none"
                /\ last.via = last.tried[SetMin(A)]
                /\ [k \in 1..Len(last.sent) |-> last.sent[k].endpoint]
                     = SubSeq(last.tried, 1, SetMin(A))

\* C28 as stated: a validator that is ready has a table that holds at least
\* the built-in endpoints, whichever way it was initialized, so GET
\* /v1/networks/affiliates and POST /v1/networks/reporting/entity validate.
C28_ReadyTableHasDefaults ==
  _initialized
    => /\ \A i \in DOMAIN DefaultSpecs : Among(DefaultSpecs[i], endpoint_specs)
       /\ check_endpoint(endpoint_specs, AffiliatesPath, "GET",
                         spec_of(endpoint_specs, AffiliatesPath)).valid
       /\ check_endpoint(endpoint_specs, EntityPath, "POST",
                         spec_of(endpoint_specs, EntityPath)).valid

\* C29 as stated: a resolve operation in suggestions mode that returns no
\* identifier returns no suggestion with a similarity of 85 or more.
C29_UnresolvedBelowAutoAccept ==
  ( /\ last.op \in SingleOps
    /\ last.ret.exc = "none"
    /\ last.ret.shape = "pair"
    /\ last.ret.id = None )
  => \A k \in 1..Len(last.ret.sugg) : last.ret.sugg[k].similarity < 850

(***************************************************************************)
(* Concurrent calls of resolve_offer on the resolver of get_resolver().    *)
(* inflight holds the calls under way, each with the place it has reached: *)
(* "check" before the cache lookup, "fetch" before get_offers, "store"     *)
(* behind its loops with the offer it matched and before the assignment    *)
(* to the cache, "done" with what it returned.  No lock orders the calls:  *)
(* their steps interleave in any way, and the upstream may move on between *)
(* them.                                                                   *)
(***************************************************************************)
\* the calls under way at a time
Concurrent == 2

\* a call as it starts
Resolving(value, return_suggestions) ==
  [pc |-> "check", value |-> value, return_suggestions |-> return_suggestions,
   search_name |-> normalize(value.s), ret |-> Bare(None)]

RaceValues ==
  {StrV(<<"f","o"," ","x">>), StrV(<<" ","F","O"," ","x">>),
   StrV(<<"h","o","l","i","d","a","y"," ","s","p","e","c","i","a","l">>)}

\* request r moves to pc with ret
Moved(r, pc, ret) == inflight' = [inflight EXCEPT ![r].pc = pc, ![r].ret = ret]

\* a request calls get_resolver().resolve_offer(value, return_suggestions)
BeginResolve(value, return_suggestions) ==
  /\ Len(inflight) < Concurrent
  /\ inflight' = Append(inflight, Resolving(value, return_suggestions))
  /\ UNCHANGED <<resolver, validator, last, paging>>

\* resolve_offer up to the fetch: the cache lookup and the test data
CheckCache(r) ==
  /\ r <= Len(inflight)
  /\ inflight[r].pc = "check"
  /\ LET c == inflight[r]
         test_offer == get_offer_by_name(c.value.s)
     IN  IF cached(_offer_cache, c.search_name)
           THEN /\ Moved(r, "done", FromCache(c.return_suggestions, _offer_cache,
                                              c.search_name).ret)
                /\ UNCHANGED _offer_cache
         ELSE IF test_offer # 0
           THEN /\ Moved(r, "done", Return(c.return_suggestions,
                                           IntV(OFFERS[test_offer].id), <<>>))
                /\ _offer_cache' = cache_put(_offer_cache, c.search_name,
                                             IntV(OFFERS[test_offer].id))
         ELSE /\ Moved(r, "fetch", c.ret)
              /\ UNCHANGED _offer_cache
  /\ UNCHANGED <<_affiliate_cache, _country_cache, upstream, calls, fetch_count,
                 validator, last, paging>>

\* get_offers and the loops over what it returned: the call has matched an
\* offer and is about to store it, or returns None
FetchOffers(r) ==
  /\ r <= Len(inflight)
  /\ inflight[r].pc = "fetch"
  /\ LET c == inflight[r]
         out == offer_from_api(c.search_name, c.return_suggestions, _offer_cache,
                               get_offers(Nominal(upstream.offers), upstream.fail, 0))
     IN  Moved(r, IF out.ret.id = None THEN "done" ELSE "store", out.ret)
  /\ UNCHANGED <<resolver, validator, last, paging>>

\* self._offer_cache[search_name] = offer_id; return offer_id
StoreAndReturn(r) ==
  /\ r <= Len(inflight)
  /\ inflight[r].pc = "store"
  /\ _offer_cache' = cache_put(_offer_cache, inflight[r].search_name, inflight[r].ret.id)
  /\ Moved(r, "done", inflight[r].ret)
  /\ UNCHANGED <<_affiliate_cache, _country_cache, upstream, calls, fetch_count,
                 validator, last, paging>>

NextRace ==
  \/ \E value \in RaceValues, rs \in BOOLEAN : BeginResolve(value, rs)
  \/ \E r \in 1..(Concurrent + 1) : CheckCache(r)
  \/ \E r \in 1..(Concurrent + 1) : FetchOffers(r)
  \/ \E r \in 1..(Concurrent + 1) : StoreAndReturn(r)
  \/ \E u \in {UpstreamB, UpstreamDown} : UpstreamChange(u)

SpecRace == Init /\ [][NextRace]_vars

\* C30 as stated: with concurrent calls on the one resolver, an entry of the
\* cache, once written, is never overwritten with another identifier, and two
\* calls for the same normalized term that return an identifier return the
\* same one.
C30_OneIdentifierPerTerm ==
  /\ [][\A k \in DOMAIN _offer_cache :
          k \in DOMAIN _offer_cache' /\ _offer_cache'[k] = _offer_cache[k]]_vars
  /\ [](\A r, s \in DOMAIN inflight :
          ( /\ inflight[r].pc = "done"
            /\ inflight[s].pc = "done"
            /\ inflight[r].search_name = inflight[s].search_name
            /\ inflight[r].ret.id # None
            /\ inflight[s].ret.id # None )
          => inflight[r].ret.id = inflight[s].ret.id)

====
